---- MODULE Spec2Model ----
(***************************************************************************)
(* MCS lock core of FOEDUS (foedus-core/src/foedus/xct/xct_mcs_impl.cpp):  *)
(* the WW lock with guest mode, the simple MCS-RW lock and the extended    *)
(* MCS-RW lock with cancellation.  Every access to a shared word (the lock *)
(* word, a field of a queue block, a thread's waiting flag) is one step of *)
(* the thread that performs it; the memory is sequentially consistent.     *)
(* One lock object is exercised per behaviour: `kind' names its type.      *)
(***************************************************************************)
EXTENDS Integers, Sequences, FiniteSets, TLC

\* ---------------------------------------------------------------- bounds
NThreads == 3
NGuests == 1
MaxOpsWw == 1
MaxOpsGuest == 2
MaxOpsSimple == 1
MaxOpsReuse == 3
MaxOpsExt == 1
MaxOpsExtReuse == 2
MaxOtherBlocks == 1

Threads == 1..NThreads
Guests == 1..NGuests
Max2(a, b) == IF a > b THEN a ELSE b
Blocks == 1..Max2(Max2(MaxOpsWw, MaxOpsReuse), Max2(MaxOpsSimple, MaxOpsExt))

\* ------------------------------------------------------- program constants
\* A 32-bit word is the pair <<high 16 bits, low 16 bits>>.
TwoTo16 == 65536
Zero32 == <<0, 0>>
kMcsGuestId == <<TwoTo16 - 1, TwoTo16 - 1>>
kNextWriterNone == 0
kPredIdAcquired == <<TwoTo16 - 1, TwoTo16 - 1>>
kSuccIdSuccessorLeaving == <<TwoTo16 - 1, TwoTo16 - 1>>
kSuccIdNoSuccessor == <<TwoTo16 - 1, TwoTo16 - 2>>

\* McsLock::to_int / McsRwLock::to_tail_int: (thread_id << 16) | block_index in 32 bits
ToTailInt(id, block_index) == <<id % TwoTo16, block_index % TwoTo16>>
\* old.get_tail_waiter() / next_id >> 16
TailThread(tail_int) == tail_int[1]
\* old.get_tail_waiter_block()
TailBlock(tail_int) == tail_int[2]

VARIABLES
  kind,        \* which lock type the lock object is: "ww", "simple" or "ext"
  client,      \* client[t]: how many acquires thread t makes, and which ones
  pc,          \* pc[t]: position of thread t in the operation it is running
  loc,         \* loc[t]: the local variables of the running operation
  curBlock,    \* adaptor: current block counter of each thread
  ops,         \* number of operations each thread has started
  ret,         \* result of the last finished operation of each thread
  wwLock,      \* McsLock::data_
  wwSucc,      \* McsBlock successor word of every block (0 = none)
  meWaiting,   \* adaptor: me_waiting flag of each thread
  gpc,         \* position of each guest
  gops,        \* number of guest acquires started
  rwTail,      \* McsRwLock::tail_
  rwNextWriter,\* McsRwLock::next_writer_
  rwNreaders,  \* McsRwLock::nreaders_
  sBlk,        \* McsRwSimpleBlock of every (thread, block index)
  xBlk,        \* McsRwExtendedBlock of every (thread, block index)
  enq,         \* history: tail words in the order of the tail exchange that enqueued them
               \* (a WW exchange that finds GuestId is undone and retried: the last counts)
  wwRetried,   \* history: tail words of which a tail exchange found GuestId
  grants,      \* history: tail words in the order in which they were granted
  cancels,     \* history: tail words whose owner has called cancel_async_rw_*
  midCancels   \* history: those of them that waited between a holder and a waiting
               \* successor when cancel_async_rw_* was called

thrVars == <<pc, loc, curBlock, ops, ret>>
wwVars == <<wwLock, wwSucc, meWaiting, gpc, gops>>
rwWord == <<rwTail, rwNextWriter, rwNreaders>>
hist == <<enq, grants, wwRetried>>
vars == <<kind, client, pc, loc, curBlock, ops, ret, wwLock, wwSucc, meWaiting, gpc, gops,
          rwTail, rwNextWriter, rwNreaders, sBlk, xBlk, enq, wwRetried, grants, cancels, midCancels>>

\* a snapshot of McsRwExtendedBlock next flags
NoFlags == [state |-> 0, busy |-> FALSE, class |-> "none"]
NoLoc == [block_index |-> 0, role |-> "none", api |-> "none", timeout |-> "none",
          pred |-> Zero32, group_tail |-> Zero32, next_id |-> Zero32,
          eflags |-> NoFlags, exp_id |-> Zero32, succ_class |-> "none",
          expf |-> FALSE, nw |-> 0, nwb |-> 0,
          lock_word |-> <<Zero32, 0, 0>>]

\* McsRwSimpleBlock after zero-fill
SimpleZero == [class |-> "zero", blocked |-> FALSE, finalized |-> FALSE,
               successor_class |-> "zero", successor_thread_id |-> 0,
               successor_block_index |-> 0]
\* McsRwExtendedBlock after zero-fill: pred = (pred_id, granted flag, class),
\* next = (next_id, state, busy, successor class)
ExtZero == [reader |-> TRUE, granted |-> FALSE, pred_id |-> Zero32,
            state |-> 0, busy |-> FALSE, class |-> "none", next_id |-> Zero32]

InitCommon ==
  /\ pc = [t \in Threads |-> "idle"]
  /\ loc = [t \in Threads |-> NoLoc]
  /\ curBlock = [t \in Threads |-> 0]
  /\ ops = [t \in Threads |-> 0]
  /\ ret = [t \in Threads |-> "none"]
  /\ wwLock = Zero32
  /\ wwSucc = [t \in Threads |-> [b \in Blocks |-> Zero32]]
  /\ meWaiting = [t \in Threads |-> FALSE]
  /\ gpc = [g \in Guests |-> "idle"]
  /\ gops = [g \in Guests |-> 0]
  /\ rwTail = Zero32
  /\ rwNextWriter = kNextWriterNone
  /\ rwNreaders = 0
  /\ sBlk = [t \in Threads |-> [b \in Blocks |-> SimpleZero]]
  /\ xBlk = [t \in Threads |-> [b \in Blocks |-> ExtZero]]
  /\ enq = <<>>
  /\ wwRetried = {}
  /\ grants = <<>>
  /\ cancels = {}
  /\ midCancels = {}

Goto(t, label) == pc' = [pc EXCEPT ![t] = label]
SetLoc(t, field, v) == loc' = [loc EXCEPT ![t][field] = v]
MyTail(t) == ToTailInt(t, loc[t].block_index)
\* an operation returns: its locals die, its result is remembered
Return(t, label, result) ==
  /\ pc' = [pc EXCEPT ![t] = label]
  /\ loc' = [loc EXCEPT ![t] = IF label = "idle" THEN NoLoc
                               ELSE [NoLoc EXCEPT !.block_index = loc[t].block_index,
                                                  !.role = loc[t].role]]
  /\ ret' = [ret EXCEPT ![t] = result]

\* ------------------------------------------------------------------------
\*                              WW lock
\* ------------------------------------------------------------------------
notWw == <<kind, client, cancels, midCancels, rwTail, rwNextWriter, rwNreaders, sBlk, xBlk>>

\* acquire_unconditional, up to the first pass of the loop: issue a block, clear its
\* successor, raise me_waiting
WwAcquireBegin(t) ==
  /\ kind = "ww" /\ pc[t] = "idle" /\ ops[t] < client[t].max
  /\ ~meWaiting[t]
  /\ curBlock' = [curBlock EXCEPT ![t] = @ + 1]
  /\ ops' = [ops EXCEPT ![t] = @ + 1]
  /\ wwSucc' = [wwSucc EXCEPT ![t][curBlock[t] + 1] = Zero32]
  /\ meWaiting' = [meWaiting EXCEPT ![t] = TRUE]
  /\ loc' = [loc EXCEPT ![t] = [NoLoc EXCEPT !.block_index = curBlock[t] + 1,
                                             !.role = "W",
                                             !.group_tail = ToTailInt(t, curBlock[t] + 1)]]
  /\ Goto(t, "ww_check_guest")
  /\ UNCHANGED <<ret, wwLock, gpc, gops, hist>>
  /\ UNCHANGED notWw

\* if (*address == kMcsGuestId) spin_until(load != kMcsGuestId)
WwSpinGuest(t) ==
  /\ pc[t] = "ww_check_guest"
  /\ wwLock # kMcsGuestId
  /\ Goto(t, "ww_xchg")
  /\ UNCHANGED <<loc, curBlock, ops, ret, hist>>
  /\ UNCHANGED wwVars
  /\ UNCHANGED notWw

\* pred_int = xchg(address, group_tail) and the three-way branch on it
WwExchange(t) ==
  /\ pc[t] = "ww_xchg"
  /\ wwLock' = loc[t].group_tail
  /\ SetLoc(t, "pred", wwLock)
  /\ enq' = IF wwLock = kMcsGuestId THEN enq ELSE Append(enq, MyTail(t))
  /\ wwRetried' = IF wwLock = kMcsGuestId THEN wwRetried \cup {MyTail(t)} ELSE wwRetried
  /\ IF wwLock = Zero32 THEN /\ Goto(t, "ww_got")
                        /\ grants' = Append(grants, MyTail(t))
     ELSE /\ grants' = grants
          /\ IF wwLock = kMcsGuestId THEN Goto(t, "ww_putback") ELSE Goto(t, "ww_link")
  /\ UNCHANGED <<curBlock, ops, ret, wwSucc, meWaiting, gpc, gops>>
  /\ UNCHANGED notWw

\* uncontended: me_waiting->store(false); return block_index
WwGotUncontended(t) ==
  /\ pc[t] = "ww_got"
  /\ meWaiting' = [meWaiting EXCEPT ![t] = FALSE]
  /\ Return(t, "held", "Ok")
  /\ UNCHANGED <<curBlock, ops, wwLock, wwSucc, gpc, gops, hist>>
  /\ UNCHANGED notWw

\* a put-back that ignores the group tail it exchanged out and keeps its own block
WwPutBackGuest_KeepOwnTail(t) ==
  /\ pc[t] = "ww_putback"
  /\ wwLock' = kMcsGuestId
  /\ SetLoc(t, "group_tail", loc[t].group_tail)
  /\ Goto(t, "ww_check_guest")
  /\ UNCHANGED <<curBlock, ops, ret, wwSucc, meWaiting, gpc, gops, hist>>
  /\ UNCHANGED notWw

\* group_tail = xchg(address, kMcsGuestId); continue
WwPutBackGuest(t) ==
  /\ pc[t] = "ww_putback"
  /\ wwLock' = kMcsGuestId
  /\ SetLoc(t, "group_tail", wwLock)
  /\ Goto(t, "ww_check_guest")
  /\ UNCHANGED <<curBlock, ops, ret, wwSucc, meWaiting, gpc, gops, hist>>
  /\ UNCHANGED notWw

\* pred_block->set_successor_release(id, block_index)
WwLinkToPred(t) ==
  /\ pc[t] = "ww_link"
  /\ wwSucc' = [wwSucc EXCEPT ![TailThread(loc[t].pred)][TailBlock(loc[t].pred)] = MyTail(t)]
  /\ Goto(t, "ww_wait")
  /\ UNCHANGED <<loc, curBlock, ops, ret, wwLock, meWaiting, gpc, gops, hist>>
  /\ UNCHANGED notWw

\* spin_until(!me_waiting); return block_index
WwWaitGranted(t) ==
  /\ pc[t] = "ww_wait"
  /\ ~meWaiting[t]
  /\ Return(t, "held", "Ok")
  /\ UNCHANGED <<curBlock, ops, hist>>
  /\ UNCHANGED wwVars
  /\ UNCHANGED notWw

\* release: if (!block->has_successor()) ... else go and wake the successor
WwReleaseBegin(t) ==
  /\ kind = "ww" /\ pc[t] = "held"
  /\ IF wwSucc[t][loc[t].block_index] = Zero32 THEN Goto(t, "ww_rel_cas") ELSE Goto(t, "ww_rel_wake")
  /\ UNCHANGED <<loc, curBlock, ops, ret, hist>>
  /\ UNCHANGED wwVars
  /\ UNCHANGED notWw

\* a release that returns after its failed CAS without waiting for the waiter that
\* jumped in to link itself
WwReleaseCas_NoHandOff(t) ==
  /\ pc[t] = "ww_rel_cas"
  /\ IF wwLock = MyTail(t) THEN wwLock' = Zero32 ELSE wwLock' = wwLock
  /\ Return(t, "idle", "Released")
  /\ UNCHANGED <<curBlock, ops, wwSucc, meWaiting, gpc, gops, hist>>
  /\ UNCHANGED notWw

\* a release that returns without storing 0 when the lock still names the caller
WwReleaseCas_Skip(t) ==
  /\ pc[t] = "ww_rel_cas"
  /\ wwLock' = wwLock
  /\ IF wwLock = MyTail(t)
       THEN Return(t, "idle", "Released")
       ELSE Goto(t, "ww_rel_spin") /\ UNCHANGED <<loc, ret>>
  /\ UNCHANGED <<curBlock, ops, wwSucc, meWaiting, gpc, gops, hist>>
  /\ UNCHANGED notWw

\* CAS(address, myself, 0): done when swapped, else wait for the successor to link
WwReleaseCas(t) ==
  /\ pc[t] = "ww_rel_cas"
  /\ IF wwLock = MyTail(t)
       THEN /\ wwLock' = Zero32
            /\ Return(t, "idle", "Released")
       ELSE /\ wwLock' = wwLock
            /\ Goto(t, "ww_rel_spin")
            /\ UNCHANGED <<loc, ret>>
  /\ UNCHANGED <<curBlock, ops, wwSucc, meWaiting, gpc, gops, hist>>
  /\ UNCHANGED notWw

\* if (!block->has_successor()) spin_until(block->has_successor_atomic())
WwReleaseSpin(t) ==
  /\ pc[t] = "ww_rel_spin"
  /\ wwSucc[t][loc[t].block_index] # Zero32
  /\ Goto(t, "ww_rel_wake")
  /\ UNCHANGED <<loc, curBlock, ops, ret, hist>>
  /\ UNCHANGED wwVars
  /\ UNCHANGED notWw

\* other_waiting(successor_id)->store(false)
WwReleaseWake(t) ==
  /\ pc[t] = "ww_rel_wake"
  /\ LET succ == wwSucc[t][loc[t].block_index] IN
       /\ meWaiting' = [meWaiting EXCEPT ![TailThread(succ)] = FALSE]
       /\ grants' = Append(grants, succ)
  /\ Return(t, "idle", "Released")
  /\ UNCHANGED <<curBlock, ops, wwLock, wwSucc, gpc, gops, enq, wwRetried>>
  /\ UNCHANGED notWw

\* a guest calls ownerless_acquire_unconditional
WwOwnerlessAcquireBegin(g) ==
  /\ kind = "ww" /\ gpc[g] = "idle" /\ gops[g] < MaxOpsGuest
  /\ gpc' = [gpc EXCEPT ![g] = "acquiring"]
  /\ gops' = [gops EXCEPT ![g] = @ + 1]
  /\ UNCHANGED <<wwLock, wwSucc, meWaiting, hist>>
  /\ UNCHANGED thrVars
  /\ UNCHANGED notWw

\* variant of WwOwnerlessAcquire that stores kMcsGuestId whatever the lock word holds
WwOwnerlessAcquire_Blind(g) ==
  /\ gpc[g] = "acquiring"
  /\ wwLock' = kMcsGuestId
  /\ gpc' = [gpc EXCEPT ![g] = "held"]
  /\ UNCHANGED <<wwSucc, meWaiting, gops, hist>>
  /\ UNCHANGED thrVars
  /\ UNCHANGED notWw

\* ownerless_acquire_unconditional: spin on CAS(address, 0, kMcsGuestId)
WwOwnerlessAcquire(g) ==
  /\ gpc[g] = "acquiring"
  /\ wwLock = Zero32
  /\ wwLock' = kMcsGuestId
  /\ gpc' = [gpc EXCEPT ![g] = "held"]
  /\ UNCHANGED <<wwSucc, meWaiting, gops, hist>>
  /\ UNCHANGED thrVars
  /\ UNCHANGED notWw

\* the guest leaves its critical section and calls ownerless_release
WwOwnerlessReleaseBegin(g) ==
  /\ gpc[g] = "held"
  /\ gpc' = [gpc EXCEPT ![g] = "releasing"]
  /\ UNCHANGED <<wwLock, wwSucc, meWaiting, gops, hist>>
  /\ UNCHANGED thrVars
  /\ UNCHANGED notWw

\* ownerless_release: spin on CAS(address, kMcsGuestId, 0)
WwOwnerlessRelease(g) ==
  /\ gpc[g] = "releasing"
  /\ wwLock = kMcsGuestId
  /\ wwLock' = Zero32
  /\ gpc' = [gpc EXCEPT ![g] = "idle"]
  /\ UNCHANGED <<wwSucc, meWaiting, gops, hist>>
  /\ UNCHANGED thrVars
  /\ UNCHANGED notWw

InitWw ==
  /\ InitCommon /\ kind = "ww"
  /\ client = [t \in Threads |-> [max |-> MaxOpsWw, calls |-> {"acquire_unconditional"}]]

WwThreadNext(t) ==
  \/ WwAcquireBegin(t)
  \/ WwSpinGuest(t)
  \/ WwExchange(t)
  \/ WwGotUncontended(t)
  \/ WwPutBackGuest(t)
  \/ WwLinkToPred(t)
  \/ WwWaitGranted(t)
  \/ WwReleaseBegin(t)
  \/ WwReleaseCas(t)
  \/ WwReleaseSpin(t)
  \/ WwReleaseWake(t)

WwGuestNext(g) ==
  \/ WwOwnerlessAcquireBegin(g)
  \/ WwOwnerlessAcquire(g)
  \/ WwOwnerlessReleaseBegin(g)
  \/ WwOwnerlessRelease(g)

NextWw ==
  \/ \E t \in Threads : WwThreadNext(t)
  \/ \E g \in Guests : WwGuestNext(g)

SpecWw == InitWw /\ [][NextWw]_vars

\* Every thread and every guest keeps taking steps while it can (native threads that
\* spin); in particular a holder eventually calls release.
FairSpecWw ==
  /\ SpecWw
  /\ \A t \in Threads : WF_vars(WwThreadNext(t))
  /\ \A g \in Guests : WF_vars(WwGuestNext(g))

\* ------------------------------------------------------------------------
\*                           Simple MCS-RW lock
\* ------------------------------------------------------------------------
notSimple == <<kind, client, cancels, midCancels, wwLock, wwSucc, meWaiting, gpc, gops, wwRetried, xBlk>>

RECURSIVE BitOr(_, _)
\* bitwise OR of two naturals (atomic fetch_or)
BitOr(a, b) ==
  IF a = 0 THEN b
  ELSE IF b = 0 THEN a
  ELSE (IF a % 2 = 1 \/ b % 2 = 1 THEN 1 ELSE 0) + 2 * BitOr(a \div 2, b \div 2)

\* 16-bit arithmetic of nreaders_
IncrementNreaders(n) == (n + 1) % TwoTo16
DecrementNreaders(n) == (n + TwoTo16 - 1) % TwoTo16

SBlock(tail_int) == sBlk[TailThread(tail_int)][TailBlock(tail_int)]
\* McsRwSimpleBlock::init_reader / init_writer
InitReaderBlock == [SimpleZero EXCEPT !.class = "reader", !.blocked = TRUE,
                                      !.successor_class = "none"]
InitWriterBlock == [SimpleZero EXCEPT !.class = "writer", !.blocked = TRUE,
                                      !.successor_class = "none"]
\* McsRwSimpleBlock::set_successor_class_writer: fetch_and of the class byte with the
\* writer pattern (none = 11b, reader = 01b, writer = 10b)
AndClassWriter(c) == IF c \in {"none", "writer"} THEN "writer" ELSE "zero"
\* McsRwSimpleBlock::set_successor_next_only: fetch_or of thread id and block index
SetSuccessorNextOnly(blk, id, block_index) ==
  [blk EXCEPT !.successor_thread_id = BitOr(@, id),
              !.successor_block_index = BitOr(@, block_index)]
SuccessorIsReady(blk) == blk.successor_block_index # 0
SuccessorTail(blk) == ToTailInt(blk.successor_thread_id, blk.successor_block_index)

\* adaptor_.issue_new_block() at the head of every acquire of the RW locks
IssueNewBlock(t, role, label) ==
  /\ curBlock' = [curBlock EXCEPT ![t] = @ + 1]
  /\ ops' = [ops EXCEPT ![t] = @ + 1]
  /\ loc' = [loc EXCEPT ![t] = [NoLoc EXCEPT !.block_index = curBlock[t] + 1,
                                             !.role = role]]
  /\ Goto(t, label)

SimpleIdle(t, call) ==
  kind = "simple" /\ pc[t] = "idle" /\ ops[t] < client[t].max /\ call \in client[t].calls
SimpleHeld(t, role) == kind = "simple" /\ pc[t] = "held" /\ loc[t].role = role

\* ---- acquire_unconditional_rw_reader
SrBegin(t) ==
  /\ SimpleIdle(t, "acquire_unconditional_rw_reader")
  /\ IssueNewBlock(t, "R", "sr_xchg")
  /\ sBlk' = [sBlk EXCEPT ![t][curBlock[t] + 1] = InitReaderBlock]
  /\ UNCHANGED <<ret, rwWord, hist>> /\ UNCHANGED notSimple

SrExchange(t) ==
  /\ pc[t] = "sr_xchg"
  /\ rwTail' = MyTail(t)
  /\ enq' = Append(enq, MyTail(t))
  /\ SetLoc(t, "pred", rwTail)
  /\ Goto(t, IF rwTail = Zero32 THEN "sr_inc0" ELSE "sr_peek")
  /\ UNCHANGED <<curBlock, ops, ret, rwNextWriter, rwNreaders, sBlk, grants>>
  /\ UNCHANGED notSimple

SrIncFirst(t) ==
  /\ pc[t] = "sr_inc0"
  /\ rwNreaders' = IncrementNreaders(rwNreaders)
  /\ Goto(t, "sr_unblock0")
  /\ UNCHANGED <<loc, curBlock, ops, ret, rwTail, rwNextWriter, sBlk, hist>>
  /\ UNCHANGED notSimple

SrUnblockFirst(t) ==
  /\ pc[t] = "sr_unblock0"
  /\ sBlk' = [sBlk EXCEPT ![t][loc[t].block_index].blocked = FALSE]
  /\ grants' = Append(grants, MyTail(t))
  /\ Goto(t, "sf_begin")
  /\ UNCHANGED <<loc, curBlock, ops, ret, rwWord, enq>> /\ UNCHANGED notSimple

\* reads the predecessor's state byte: the expected value of the compare-exchange and
\* the is_reader test
SrPeekPred(t) ==
  /\ pc[t] = "sr_peek"
  /\ SetLoc(t, "expf", SBlock(loc[t].pred).finalized)
  /\ Goto(t, IF SBlock(loc[t].pred).class = "reader" THEN "sr_cas" ELSE "sr_link_wait")
  /\ UNCHANGED <<curBlock, ops, ret, rwWord, sBlk, hist>> /\ UNCHANGED notSimple

\* compare-exchange of pred's 16-bit self word from [blocked, no successor] to
\* [blocked, reader successor]
SrCasPred(t) ==
  /\ pc[t] = "sr_cas"
  /\ LET p == loc[t].pred
         pb == SBlock(p)
         hit == /\ pb.blocked /\ pb.successor_class = "none"
                /\ pb.finalized = loc[t].expf
     IN IF hit
        THEN /\ sBlk' = [sBlk EXCEPT ![TailThread(p)][TailBlock(p)].successor_class = "reader"]
             /\ Goto(t, "sr_link_wait")
        ELSE /\ UNCHANGED sBlk
             /\ Goto(t, "sr_join_inc")
  /\ UNCHANGED <<loc, curBlock, ops, ret, rwWord, hist>> /\ UNCHANGED notSimple

SrLinkWait(t) ==
  /\ pc[t] = "sr_link_wait"
  /\ LET p == loc[t].pred
     IN sBlk' = [sBlk EXCEPT ![TailThread(p)][TailBlock(p)] =
                   SetSuccessorNextOnly(@, t, loc[t].block_index)]
  /\ Goto(t, "sr_spin")
  /\ UNCHANGED <<loc, curBlock, ops, ret, rwWord, hist>> /\ UNCHANGED notSimple

SrSpin(t) ==
  /\ pc[t] = "sr_spin"
  /\ ~sBlk[t][loc[t].block_index].blocked
  /\ Goto(t, "sf_begin")
  /\ UNCHANGED <<loc, curBlock, ops, ret, rwWord, sBlk, hist>> /\ UNCHANGED notSimple

SrJoinInc(t) ==
  /\ pc[t] = "sr_join_inc"
  /\ rwNreaders' = IncrementNreaders(rwNreaders)
  /\ Goto(t, "sr_join_link")
  /\ UNCHANGED <<loc, curBlock, ops, ret, rwTail, rwNextWriter, sBlk, hist>>
  /\ UNCHANGED notSimple

SrJoinLink(t) ==
  /\ pc[t] = "sr_join_link"
  /\ LET p == loc[t].pred
     IN sBlk' = [sBlk EXCEPT ![TailThread(p)][TailBlock(p)] =
                   SetSuccessorNextOnly(@, t, loc[t].block_index)]
  /\ Goto(t, "sr_join_unblock")
  /\ UNCHANGED <<loc, curBlock, ops, ret, rwWord, hist>> /\ UNCHANGED notSimple

SrJoinUnblock(t) ==
  /\ pc[t] = "sr_join_unblock"
  /\ sBlk' = [sBlk EXCEPT ![t][loc[t].block_index].blocked = FALSE]
  /\ grants' = Append(grants, MyTail(t))
  /\ Goto(t, "sf_begin")
  /\ UNCHANGED <<loc, curBlock, ops, ret, rwWord, enq>> /\ UNCHANGED notSimple

\* ---- finalize_acquire_reader_simple
SfBegin(t) ==
  /\ pc[t] = "sf_begin"
  /\ Goto(t, IF sBlk[t][loc[t].block_index].successor_class = "reader"
             THEN "sf_spin" ELSE "sf_final")
  /\ UNCHANGED <<loc, curBlock, ops, ret, rwWord, sBlk, hist>> /\ UNCHANGED notSimple

SfSpin(t) ==
  /\ pc[t] = "sf_spin"
  /\ SuccessorIsReady(sBlk[t][loc[t].block_index])
  /\ Goto(t, "sf_inc")
  /\ UNCHANGED <<loc, curBlock, ops, ret, rwWord, sBlk, hist>> /\ UNCHANGED notSimple

SfInc(t) ==
  /\ pc[t] = "sf_inc"
  /\ rwNreaders' = IncrementNreaders(rwNreaders)
  /\ Goto(t, "sf_unblock")
  /\ UNCHANGED <<loc, curBlock, ops, ret, rwTail, rwNextWriter, sBlk, hist>>
  /\ UNCHANGED notSimple

SfUnblockSucc(t) ==
  /\ pc[t] = "sf_unblock"
  /\ LET s == SuccessorTail(sBlk[t][loc[t].block_index])
     IN /\ sBlk' = [sBlk EXCEPT ![TailThread(s)][TailBlock(s)].blocked = FALSE]
        /\ grants' = Append(grants, s)
  /\ Goto(t, "sf_final")
  /\ UNCHANGED <<loc, curBlock, ops, ret, rwWord, enq>> /\ UNCHANGED notSimple

SfFinal(t) ==
  /\ pc[t] = "sf_final"
  /\ sBlk' = [sBlk EXCEPT ![t][loc[t].block_index].finalized = TRUE]
  /\ Return(t, "held", "Ok")
  /\ UNCHANGED <<curBlock, ops, rwWord, hist>> /\ UNCHANGED notSimple

\* ---- release_rw_reader
RrBegin(t) ==
  /\ SimpleHeld(t, "R")
  /\ Goto(t, IF SuccessorIsReady(sBlk[t][loc[t].block_index]) THEN "rr_spin" ELSE "rr_cas")
  /\ UNCHANGED <<loc, curBlock, ops, ret, rwWord, sBlk, hist>> /\ UNCHANGED notSimple

RrCas(t) ==
  /\ pc[t] = "rr_cas"
  /\ IF rwTail = MyTail(t)
     THEN rwTail' = Zero32 /\ Goto(t, "rr_dec")
     ELSE UNCHANGED rwTail /\ Goto(t, "rr_spin")
  /\ UNCHANGED <<loc, curBlock, ops, ret, rwNextWriter, rwNreaders, sBlk, hist>>
  /\ UNCHANGED notSimple

RrSpin(t) ==
  /\ pc[t] = "rr_spin"
  /\ SuccessorIsReady(sBlk[t][loc[t].block_index])
  /\ Goto(t, IF sBlk[t][loc[t].block_index].successor_class = "writer"
             THEN "rr_setnw" ELSE "rr_dec")
  /\ UNCHANGED <<loc, curBlock, ops, ret, rwWord, sBlk, hist>> /\ UNCHANGED notSimple

RrSetNextWriter(t) ==
  /\ pc[t] = "rr_setnw"
  /\ rwNextWriter' = sBlk[t][loc[t].block_index].successor_thread_id
  /\ Goto(t, "rr_dec")
  /\ UNCHANGED <<loc, curBlock, ops, ret, rwTail, rwNreaders, sBlk, hist>>
  /\ UNCHANGED notSimple

RrDecrement(t) ==
  /\ pc[t] = "rr_dec"
  /\ rwNreaders' = DecrementNreaders(rwNreaders)
  /\ IF rwNreaders = 1
     THEN Goto(t, "rr_load_nw") /\ UNCHANGED <<loc, ret>>
     ELSE Return(t, "idle", "Released")
  /\ UNCHANGED <<curBlock, ops, rwTail, rwNextWriter, sBlk, hist>> /\ UNCHANGED notSimple

RrLoadNextWriter(t) ==
  /\ pc[t] = "rr_load_nw"
  /\ IF rwNextWriter = kNextWriterNone
     THEN Return(t, "idle", "Released")
     ELSE SetLoc(t, "nw", rwNextWriter) /\ Goto(t, "rr_chk_nr") /\ UNCHANGED ret
  /\ UNCHANGED <<curBlock, ops, rwWord, sBlk, hist>> /\ UNCHANGED notSimple

RrCheckNreaders(t) ==
  /\ pc[t] = "rr_chk_nr"
  /\ IF rwNreaders = 0
     THEN Goto(t, "rr_cas_nw") /\ UNCHANGED <<loc, ret>>
     ELSE Return(t, "idle", "Released")
  /\ UNCHANGED <<curBlock, ops, rwWord, sBlk, hist>> /\ UNCHANGED notSimple

RrCasNextWriter(t) ==
  /\ pc[t] = "rr_cas_nw"
  /\ IF rwNextWriter = loc[t].nw
     THEN rwNextWriter' = kNextWriterNone /\ Goto(t, "rr_other_cur") /\ UNCHANGED <<loc, ret>>
     ELSE UNCHANGED rwNextWriter /\ Return(t, "idle", "Released")
  /\ UNCHANGED <<curBlock, ops, rwTail, rwNreaders, sBlk, hist>> /\ UNCHANGED notSimple

\* adaptor_.get_other_cur_block(next_writer)
RrOtherCurBlock(t) ==
  /\ pc[t] = "rr_other_cur"
  /\ SetLoc(t, "nwb", curBlock[loc[t].nw])
  /\ Goto(t, "rr_wake")
  /\ UNCHANGED <<curBlock, ops, ret, rwWord, sBlk, hist>> /\ UNCHANGED notSimple

RrWakeWriter(t) ==
  /\ pc[t] = "rr_wake"
  /\ sBlk' = [sBlk EXCEPT ![loc[t].nw][loc[t].nwb].blocked = FALSE]
  /\ grants' = Append(grants, ToTailInt(loc[t].nw, loc[t].nwb))
  /\ Return(t, "idle", "Released")
  /\ UNCHANGED <<curBlock, ops, rwWord, enq>> /\ UNCHANGED notSimple

\* ---- acquire_unconditional_rw_writer
SwBegin(t) ==
  /\ SimpleIdle(t, "acquire_unconditional_rw_writer")
  /\ IssueNewBlock(t, "W", "sw_xchg")
  /\ sBlk' = [sBlk EXCEPT ![t][curBlock[t] + 1] = InitWriterBlock]
  /\ UNCHANGED <<ret, rwWord, hist>> /\ UNCHANGED notSimple

SwExchange(t) ==
  /\ pc[t] = "sw_xchg"
  /\ rwTail' = MyTail(t)
  /\ enq' = Append(enq, MyTail(t))
  /\ SetLoc(t, "pred", rwTail)
  /\ Goto(t, IF rwTail = Zero32 THEN "sw_setnw" ELSE "sw_setclass")
  /\ UNCHANGED <<curBlock, ops, ret, rwNextWriter, rwNreaders, sBlk, grants>>
  /\ UNCHANGED notSimple

SwSetNextWriter(t) ==
  /\ pc[t] = "sw_setnw"
  /\ rwNextWriter' = t
  /\ Goto(t, "sw_chk_nr")
  /\ UNCHANGED <<loc, curBlock, ops, ret, rwTail, rwNreaders, sBlk, hist>>
  /\ UNCHANGED notSimple

SwCheckNreaders(t) ==
  /\ pc[t] = "sw_chk_nr"
  /\ Goto(t, IF rwNreaders = 0 THEN "sw_xchg_nw" ELSE "sw_spin")
  /\ UNCHANGED <<loc, curBlock, ops, ret, rwWord, sBlk, hist>> /\ UNCHANGED notSimple

SwExchangeNextWriter(t) ==
  /\ pc[t] = "sw_xchg_nw"
  /\ rwNextWriter' = kNextWriterNone
  /\ Goto(t, IF rwNextWriter = t THEN "sw_self" ELSE "sw_spin")
  /\ UNCHANGED <<loc, curBlock, ops, ret, rwTail, rwNreaders, sBlk, hist>>
  /\ UNCHANGED notSimple

SwUnblockSelf(t) ==
  /\ pc[t] = "sw_self"
  /\ sBlk' = [sBlk EXCEPT ![t][loc[t].block_index].blocked = FALSE]
  /\ grants' = Append(grants, MyTail(t))
  /\ Return(t, "held", "Ok")
  /\ UNCHANGED <<curBlock, ops, rwWord, enq>> /\ UNCHANGED notSimple

SwSetClass(t) ==
  /\ pc[t] = "sw_setclass"
  /\ LET p == loc[t].pred
     IN sBlk' = [sBlk EXCEPT ![TailThread(p)][TailBlock(p)].successor_class =
                   AndClassWriter(@)]
  /\ Goto(t, "sw_link")
  /\ UNCHANGED <<loc, curBlock, ops, ret, rwWord, hist>> /\ UNCHANGED notSimple

SwLink(t) ==
  /\ pc[t] = "sw_link"
  /\ LET p == loc[t].pred
     IN sBlk' = [sBlk EXCEPT ![TailThread(p)][TailBlock(p)] =
                   SetSuccessorNextOnly(@, t, loc[t].block_index)]
  /\ Goto(t, "sw_spin")
  /\ UNCHANGED <<loc, curBlock, ops, ret, rwWord, hist>> /\ UNCHANGED notSimple

SwSpin(t) ==
  /\ pc[t] = "sw_spin"
  /\ ~sBlk[t][loc[t].block_index].blocked
  /\ Return(t, "held", "Ok")
  /\ UNCHANGED <<curBlock, ops, rwWord, sBlk, hist>> /\ UNCHANGED notSimple

\* ---- release_rw_writer
RwBegin(t) ==
  /\ SimpleHeld(t, "W")
  /\ Goto(t, IF SuccessorIsReady(sBlk[t][loc[t].block_index])
             THEN "rw_is_reader" ELSE "rw_cas")
  /\ UNCHANGED <<loc, curBlock, ops, ret, rwWord, sBlk, hist>> /\ UNCHANGED notSimple

RwCas(t) ==
  /\ pc[t] = "rw_cas"
  /\ IF rwTail = MyTail(t)
     THEN rwTail' = Zero32 /\ Return(t, "idle", "Released")
     ELSE UNCHANGED rwTail /\ Goto(t, "rw_spin") /\ UNCHANGED <<loc, ret>>
  /\ UNCHANGED <<curBlock, ops, rwNextWriter, rwNreaders, sBlk, hist>>
  /\ UNCHANGED notSimple

RwSpin(t) ==
  /\ pc[t] = "rw_spin"
  /\ SuccessorIsReady(sBlk[t][loc[t].block_index])
  /\ Goto(t, "rw_is_reader")
  /\ UNCHANGED <<loc, curBlock, ops, ret, rwWord, sBlk, hist>> /\ UNCHANGED notSimple

RwIsReader(t) ==
  /\ pc[t] = "rw_is_reader"
  /\ Goto(t, IF SBlock(SuccessorTail(sBlk[t][loc[t].block_index])).class = "reader"
             THEN "rw_inc" ELSE "rw_unblock")
  /\ UNCHANGED <<loc, curBlock, ops, ret, rwWord, sBlk, hist>> /\ UNCHANGED notSimple

RwInc(t) ==
  /\ pc[t] = "rw_inc"
  /\ rwNreaders' = IncrementNreaders(rwNreaders)
  /\ Goto(t, "rw_unblock")
  /\ UNCHANGED <<loc, curBlock, ops, ret, rwTail, rwNextWriter, sBlk, hist>>
  /\ UNCHANGED notSimple

RwUnblockSucc(t) ==
  /\ pc[t] = "rw_unblock"
  /\ LET s == SuccessorTail(sBlk[t][loc[t].block_index])
     IN /\ sBlk' = [sBlk EXCEPT ![TailThread(s)][TailBlock(s)].blocked = FALSE]
        /\ grants' = Append(grants, s)
  /\ Return(t, "idle", "Released")
  /\ UNCHANGED <<curBlock, ops, rwWord, enq>> /\ UNCHANGED notSimple

\* ---- acquire_try_rw_writer / retry_async_rw_writer: the block is initialised and
\* unblocked before the compare-exchange of the whole lock word
TwBegin(t) ==
  /\ SimpleIdle(t, "acquire_try_rw_writer")
  /\ IssueNewBlock(t, "W", "tw_cas")
  /\ sBlk' = [sBlk EXCEPT ![t][curBlock[t] + 1] = [InitWriterBlock EXCEPT !.blocked = FALSE]]
  /\ UNCHANGED <<ret, rwWord, hist>> /\ UNCHANGED notSimple

\* a compare-exchange of the tail and next_writer alone, which does not see the readers
TwCas_IgnoreReaders(t) ==
  /\ pc[t] = "tw_cas"
  /\ \E attempt \in BOOLEAN :
       IF attempt /\ rwTail = Zero32 /\ rwNextWriter = kNextWriterNone
       THEN /\ rwTail' = MyTail(t)
            /\ enq' = Append(enq, MyTail(t))
            /\ grants' = Append(grants, MyTail(t))
            /\ Return(t, "held", "Ok")
       ELSE /\ UNCHANGED <<rwTail, hist>>
            /\ Return(t, "idle", "TryFail")
  /\ UNCHANGED <<curBlock, ops, rwNextWriter, rwNreaders, sBlk>> /\ UNCHANGED notSimple

\* weak compare-exchange: may fail although the word matches
TwCas(t) ==
  /\ pc[t] = "tw_cas"
  /\ \E attempt \in BOOLEAN :
       IF attempt /\ rwTail = Zero32 /\ rwNextWriter = kNextWriterNone /\ rwNreaders = 0
       THEN /\ rwTail' = MyTail(t)
            /\ enq' = Append(enq, MyTail(t))
            /\ grants' = Append(grants, MyTail(t))
            /\ Return(t, "held", "Ok")
       ELSE /\ UNCHANGED <<rwTail, hist>>
            /\ Return(t, "idle", "TryFail")
  /\ UNCHANGED <<curBlock, ops, rwNextWriter, rwNreaders, sBlk>> /\ UNCHANGED notSimple

\* ---- acquire_try_rw_reader / retry_async_rw_reader
TrBegin(t) ==
  /\ SimpleIdle(t, "acquire_try_rw_reader")
  /\ IssueNewBlock(t, "R", "tr_load")
  /\ UNCHANGED <<ret, rwWord, sBlk, hist>> /\ UNCHANGED notSimple

TrLoad(t) ==
  /\ pc[t] = "tr_load"
  /\ IF rwNextWriter # kNextWriterNone
     THEN Return(t, "idle", "TryFail")
     ELSE /\ SetLoc(t, "lock_word", <<rwTail, rwNextWriter, rwNreaders>>)
          /\ Goto(t, IF rwTail = Zero32 THEN "tr_cas" ELSE "tr_peek")
          /\ UNCHANGED ret
  /\ UNCHANGED <<curBlock, ops, rwWord, sBlk, hist>> /\ UNCHANGED notSimple

\* a try reader that makes its compare-exchange whatever block the tail names
TrPeek_AnyTail(t) ==
  /\ pc[t] = "tr_peek"
  /\ Goto(t, "tr_cas") /\ UNCHANGED <<loc, ret>>
  /\ UNCHANGED <<curBlock, ops, rwWord, sBlk, hist>> /\ UNCHANGED notSimple

TrPeek(t) ==
  /\ pc[t] = "tr_peek"
  /\ LET b == SBlock(loc[t].lock_word[1])
     IN IF ~b.blocked /\ b.class = "reader"
        THEN Goto(t, "tr_cas") /\ UNCHANGED <<loc, ret>>
        ELSE Return(t, "idle", "TryFail")
  /\ UNCHANGED <<curBlock, ops, rwWord, sBlk, hist>> /\ UNCHANGED notSimple

\* init_reader of the own block, then the weak compare-exchange of the lock word to
\* [tail = me, same next_writer, nreaders + 1]
TrCas(t) ==
  /\ pc[t] = "tr_cas"
  /\ sBlk' = [sBlk EXCEPT ![t][loc[t].block_index] = InitReaderBlock]
  /\ \E attempt \in BOOLEAN :
       IF attempt /\ <<rwTail, rwNextWriter, rwNreaders>> = loc[t].lock_word
       THEN /\ rwTail' = MyTail(t)
            /\ rwNreaders' = IncrementNreaders(loc[t].lock_word[3])
            /\ enq' = Append(enq, MyTail(t))
            /\ Goto(t, IF loc[t].lock_word[1] # Zero32 THEN "tr_link" ELSE "tr_unblock")
            /\ UNCHANGED <<loc, ret>>
       ELSE /\ UNCHANGED <<rwTail, rwNreaders, enq>>
            /\ Return(t, "idle", "TryFail")
  /\ UNCHANGED <<curBlock, ops, rwNextWriter, grants>> /\ UNCHANGED notSimple

TrLink(t) ==
  /\ pc[t] = "tr_link"
  /\ LET p == loc[t].lock_word[1]
     IN sBlk' = [sBlk EXCEPT ![TailThread(p)][TailBlock(p)] =
                   SetSuccessorNextOnly(@, t, loc[t].block_index)]
  /\ Goto(t, "tr_unblock")
  /\ UNCHANGED <<loc, curBlock, ops, ret, rwWord, hist>> /\ UNCHANGED notSimple

TrUnblock(t) ==
  /\ pc[t] = "tr_unblock"
  /\ sBlk' = [sBlk EXCEPT ![t][loc[t].block_index].blocked = FALSE]
  /\ grants' = Append(grants, MyTail(t))
  /\ Goto(t, "sf_begin")
  /\ UNCHANGED <<loc, curBlock, ops, ret, rwWord, enq>> /\ UNCHANGED notSimple

SimpleCalls == {"acquire_unconditional_rw_reader", "acquire_unconditional_rw_writer",
                "acquire_try_rw_reader", "acquire_try_rw_writer"}
InitSimple ==
  /\ InitCommon /\ kind = "simple"
  /\ client = [t \in Threads |-> [max |-> MaxOpsSimple, calls |-> SimpleCalls]]

SimpleUnconditionalNext(t) ==
  \/ SrBegin(t) \/ SrExchange(t) \/ SrIncFirst(t) \/ SrUnblockFirst(t)
  \/ SrPeekPred(t) \/ SrCasPred(t) \/ SrLinkWait(t) \/ SrSpin(t)
  \/ SrJoinInc(t) \/ SrJoinLink(t) \/ SrJoinUnblock(t)
  \/ SfBegin(t) \/ SfSpin(t) \/ SfInc(t) \/ SfUnblockSucc(t) \/ SfFinal(t)
  \/ RrBegin(t) \/ RrCas(t) \/ RrSpin(t) \/ RrSetNextWriter(t) \/ RrDecrement(t)
  \/ RrLoadNextWriter(t) \/ RrCheckNreaders(t) \/ RrCasNextWriter(t)
  \/ RrOtherCurBlock(t) \/ RrWakeWriter(t)
  \/ SwBegin(t) \/ SwExchange(t) \/ SwSetNextWriter(t) \/ SwCheckNreaders(t)
  \/ SwExchangeNextWriter(t) \/ SwUnblockSelf(t) \/ SwSetClass(t) \/ SwLink(t)
  \/ SwSpin(t)
  \/ RwBegin(t) \/ RwCas(t) \/ RwSpin(t) \/ RwIsReader(t) \/ RwInc(t)
  \/ RwUnblockSucc(t)

SimpleTryNext(t) ==
  \/ TwBegin(t) \/ TwCas(t)
  \/ TrBegin(t) \/ TrLoad(t) \/ TrPeek(t) \/ TrCas(t) \/ TrLink(t) \/ TrUnblock(t)

NextSimple == \E t \in Threads : SimpleUnconditionalNext(t) \/ SimpleTryNext(t)

SpecSimple == InitSimple /\ [][NextSimple]_vars

\* A workload in which one thread comes back to the lock: two threads read once, the
\* last thread makes up to MaxOpsReuse unconditional acquires of either class.
InitSimpleReuse ==
  /\ InitCommon /\ kind = "simple"
  /\ client = [t \in Threads |->
                 IF t < NThreads
                 THEN [max |-> 1, calls |-> {"acquire_unconditional_rw_reader"}]
                 ELSE [max |-> MaxOpsReuse,
                       calls |-> {"acquire_unconditional_rw_reader",
                                  "acquire_unconditional_rw_writer"}]]

NextSimpleReuse == \E t \in Threads : SimpleUnconditionalNext(t)

SpecSimpleReuse == InitSimpleReuse /\ [][NextSimpleReuse]_vars

\* ------------------------------------------------------------------------
\*                          Extended MCS-RW lock
\* ------------------------------------------------------------------------
notExt == <<kind, client, wwLock, wwSucc, meWaiting, gpc, gops, wwRetried, sBlk>>

XB(tail_int) == xBlk[TailThread(tail_int)][TailBlock(tail_int)]
MyX(t) == xBlk[t][loc[t].block_index]
XSet(blocks, tail_int, field, v) ==
  [blocks EXCEPT ![TailThread(tail_int)][TailBlock(tail_int)][field] = v]
\* fetch_or of a successor class into the class bits of next flags
OrClass(c, x) == IF c = "none" \/ c = x THEN x ELSE "both"
\* the value of McsRwExtendedBlock next flags
FlagsOf(blk) == [state |-> blk.state, busy |-> blk.busy, class |-> blk.class]
\* McsRwExtendedBlock::init_reader / init_writer
ExtInitReader == [ExtZero EXCEPT !.reader = TRUE]
ExtInitWriter == [ExtZero EXCEPT !.reader = FALSE]
Word == <<rwTail, rwNextWriter, rwNreaders>>

\* one atomic step of thread t inside an operation of the extended lock
XStep(t, label, newLoc, newBlk, newWord, newEnq, newGrants) ==
  /\ pc' = [pc EXCEPT ![t] = label]
  /\ loc' = [loc EXCEPT ![t] = newLoc]
  /\ xBlk' = newBlk
  /\ rwTail' = newWord[1] /\ rwNextWriter' = newWord[2] /\ rwNreaders' = newWord[3]
  /\ enq' = newEnq /\ grants' = newGrants
  /\ UNCHANGED <<curBlock, ops, ret, cancels, midCancels>> /\ UNCHANGED notExt
StepPc(t, label) == XStep(t, label, loc[t], xBlk, Word, enq, grants)
StepLoc(t, label, newLoc) == XStep(t, label, newLoc, xBlk, Word, enq, grants)
StepBlk(t, label, newBlk) == XStep(t, label, loc[t], newBlk, Word, enq, grants)
StepLocBlk(t, label, newLoc, newBlk) == XStep(t, label, newLoc, newBlk, Word, enq, grants)
StepTail(t, label, newTail) ==
  XStep(t, label, loc[t], xBlk, <<newTail, rwNextWriter, rwNreaders>>, enq, grants)
StepNextWriter(t, label, newNw) ==
  XStep(t, label, loc[t], xBlk, <<rwTail, newNw, rwNreaders>>, enq, grants)
StepNreaders(t, label, newNr) ==
  XStep(t, label, loc[t], xBlk, <<rwTail, rwNextWriter, newNr>>, enq, grants)
\* set_pred_flag_granted on the block tail_int
StepGrant(t, label, tail_int) ==
  XStep(t, label, loc[t], XSet(xBlk, tail_int, "granted", TRUE), Word, enq,
        Append(grants, tail_int))

\* the internal function, and with it the API call that made it, returns code
XReturnEnq(t, code, newBlk, newWord, newEnq, newGrants) ==
  /\ xBlk' = newBlk
  /\ rwTail' = newWord[1] /\ rwNextWriter' = newWord[2] /\ rwNreaders' = newWord[3]
  /\ enq' = newEnq /\ grants' = newGrants
  /\ UNCHANGED <<curBlock, ops, cancels, midCancels>>
  /\ UNCHANGED notExt
  /\ CASE code = "Ok" /\ loc[t].api = "cancel" ->
            \* cancel_async_rw_*: actually got the lock, have to release then
            /\ pc' = [pc EXCEPT ![t] = IF loc[t].role = "R" THEN "rrl_begin" ELSE "rwl_begin"]
            /\ loc' = [loc EXCEPT ![t] = [NoLoc EXCEPT !.block_index = loc[t].block_index,
                                                       !.role = loc[t].role,
                                                       !.api = "cancel"]]
            /\ UNCHANGED ret
       [] code = "Ok" /\ loc[t].api # "cancel" -> Return(t, "held", "Ok")
       [] code = "Requested" -> Return(t, "requested", "Requested")
       [] code = "Released" ->
            Return(t, "idle", IF loc[t].api = "cancel" THEN "CancelReleased" ELSE "Released")
       [] OTHER -> Return(t, "idle", code)

XReturn(t, code, newBlk, newWord, newGrants) ==
  XReturnEnq(t, code, newBlk, newWord, enq, newGrants)

ExtIdle(t, call) ==
  kind = "ext" /\ pc[t] = "idle" /\ ops[t] < client[t].max /\ call \in client[t].calls

\* entry of an acquire: init_block issues a new block and initialises it
init_block(t, call, role, api, timeout, label, blk) ==
  /\ ExtIdle(t, call)
  /\ curBlock' = [curBlock EXCEPT ![t] = @ + 1]
  /\ ops' = [ops EXCEPT ![t] = @ + 1]
  /\ loc' = [loc EXCEPT ![t] = [NoLoc EXCEPT !.block_index = curBlock[t] + 1,
                                             !.role = role, !.api = api,
                                             !.timeout = timeout]]
  /\ Goto(t, label)
  /\ xBlk' = [xBlk EXCEPT ![t][curBlock[t] + 1] = blk]
  /\ UNCHANGED <<ret, rwWord, hist, cancels, midCancels>> /\ UNCHANGED notExt

acquire_unconditional_rw_reader(t) ==
  init_block(t, "acquire_unconditional_rw_reader", "R", "acquire", "never", "arl_xchg",
             ExtInitReader)
acquire_unconditional_rw_writer(t) ==
  init_block(t, "acquire_unconditional_rw_writer", "W", "acquire", "never", "awl_xchg",
             ExtInitWriter)
acquire_async_rw_reader(t) ==
  init_block(t, "acquire_async_rw_reader", "R", "acquire", "zero", "arl_xchg",
             ExtInitReader)
acquire_async_rw_writer(t) ==
  init_block(t, "acquire_async_rw_writer", "W", "acquire", "zero", "awl_xchg",
             ExtInitWriter)

\* a first reader that is granted without being counted
acquire_reader_lock_NoCount(t) ==
  LET L == loc[t]
      me == MyTail(t)
  IN
  \/ /\ pc[t] = "arl_xchg"
     /\ XStep(t, IF rwTail = Zero32 THEN "arl_inc" ELSE "arl_deref",
              [L EXCEPT !.pred = rwTail], xBlk, <<me, rwNextWriter, rwNreaders>>,
              Append(enq, me), grants)
  \/ /\ pc[t] = "arl_inc"
     /\ StepPc(t, "arl_grant")
  \/ /\ pc[t] = "arl_grant"
     /\ StepGrant(t, "farl_begin", me)
  \/ /\ pc[t] = "arl_deref"
     /\ StepPc(t, IF XB(L.pred).reader THEN "crp_spin" ELSE "cwp_spin")

acquire_reader_lock(t) ==
  LET L == loc[t]
      me == MyTail(t)
  IN
  \/ /\ pc[t] = "arl_xchg"
     /\ XStep(t, IF rwTail = Zero32 THEN "arl_inc" ELSE "arl_deref",
              [L EXCEPT !.pred = rwTail], xBlk, <<me, rwNextWriter, rwNreaders>>,
              Append(enq, me), grants)
  \/ /\ pc[t] = "arl_inc"
     /\ StepNreaders(t, "arl_grant", IncrementNreaders(rwNreaders))
  \/ /\ pc[t] = "arl_grant"
     /\ StepGrant(t, "farl_begin", me)
  \/ /\ pc[t] = "arl_deref"
     /\ StepPc(t, IF XB(L.pred).reader THEN "crp_spin" ELSE "cwp_spin")

\* a finish_acquire_reader_lock that returns without unset_next_flag_busy
finish_acquire_reader_lock_KeepBusy(t) ==
  LET L == loc[t]
      me == MyTail(t)
      my == MyX(t)
  IN
  \/ /\ pc[t] = "farl_begin"   \* set_next_flag_busy_granted
     /\ StepBlk(t, "farl_spin_leaving",
                [xBlk EXCEPT ![t][L.block_index].state = BitOr(@, 2),
                             ![t][L.block_index].busy = TRUE])
  \/ /\ pc[t] = "farl_spin_leaving"
     /\ my.next_id # kSuccIdSuccessorLeaving
     /\ StepPc(t, "farl_tail")
  \/ /\ pc[t] = "farl_tail"
     /\ StepPc(t, IF rwTail = me THEN "farl_unbusy" ELSE "farl_spin_next")
  \/ /\ pc[t] = "farl_spin_next"
     /\ my.next_id # Zero32
     /\ StepPc(t, "farl_get_next")
  \/ /\ pc[t] = "farl_get_next"
     /\ StepLoc(t, IF my.next_id = kSuccIdNoSuccessor THEN "farl_unbusy" ELSE "farl_flags",
                [L EXCEPT !.next_id = my.next_id])
  \/ /\ pc[t] = "farl_flags"
     /\ StepPc(t, IF my.state = 3 /\ my.class = "none" THEN "farl_lg_spin"
                  ELSE IF my.class = "reader" THEN "farl_r_spin"
                  ELSE "farl_unbusy")
  \/ /\ pc[t] = "farl_r_spin"
     /\ XB(L.next_id).pred_id = me
     /\ StepPc(t, "farl_r_cas")
  \/ /\ pc[t] = "farl_r_cas"
     /\ IF XB(L.next_id).pred_id = me
        THEN StepBlk(t, "farl_inc", XSet(xBlk, L.next_id, "pred_id", kPredIdAcquired))
        ELSE StepPc(t, "farl_r_spin")
  \/ /\ pc[t] = "farl_inc"
     /\ StepNreaders(t, "farl_grant", IncrementNreaders(rwNreaders))
  \/ /\ pc[t] = "farl_grant"
     /\ StepGrant(t, "farl_set_next", L.next_id)
  \/ /\ pc[t] = "farl_set_next"
     /\ StepBlk(t, "farl_unbusy", XSet(xBlk, me, "next_id", kSuccIdNoSuccessor))
  \/ /\ pc[t] = "farl_unbusy"
     /\ XReturn(t, "Ok", xBlk, Word, grants)

\* a finish_acquire_reader_lock that grants its reader successor without counting it
finish_acquire_reader_lock_NoIncrement(t) ==
  LET L == loc[t]
      me == MyTail(t)
      my == MyX(t)
  IN
  \/ /\ pc[t] = "farl_begin"   \* set_next_flag_busy_granted
     /\ StepBlk(t, "farl_spin_leaving",
                [xBlk EXCEPT ![t][L.block_index].state = BitOr(@, 2),
                             ![t][L.block_index].busy = TRUE])
  \/ /\ pc[t] = "farl_spin_leaving"
     /\ my.next_id # kSuccIdSuccessorLeaving
     /\ StepPc(t, "farl_tail")
  \/ /\ pc[t] = "farl_tail"
     /\ StepPc(t, IF rwTail = me THEN "farl_unbusy" ELSE "farl_spin_next")
  \/ /\ pc[t] = "farl_spin_next"
     /\ my.next_id # Zero32
     /\ StepPc(t, "farl_get_next")
  \/ /\ pc[t] = "farl_get_next"
     /\ StepLoc(t, IF my.next_id = kSuccIdNoSuccessor THEN "farl_unbusy" ELSE "farl_flags",
                [L EXCEPT !.next_id = my.next_id])
  \/ /\ pc[t] = "farl_flags"
     /\ StepPc(t, IF my.state = 3 /\ my.class = "none" THEN "farl_lg_spin"
                  ELSE IF my.class = "reader" THEN "farl_r_spin"
                  ELSE "farl_unbusy")
  \/ /\ pc[t] = "farl_r_spin"
     /\ XB(L.next_id).pred_id = me
     /\ StepPc(t, "farl_r_cas")
  \/ /\ pc[t] = "farl_r_cas"
     /\ IF XB(L.next_id).pred_id = me
        THEN StepBlk(t, "farl_inc", XSet(xBlk, L.next_id, "pred_id", kPredIdAcquired))
        ELSE StepPc(t, "farl_r_spin")
  \/ /\ pc[t] = "farl_inc"
     /\ StepPc(t, "farl_grant")
  \/ /\ pc[t] = "farl_grant"
     /\ StepGrant(t, "farl_set_next", L.next_id)
  \/ /\ pc[t] = "farl_set_next"
     /\ StepBlk(t, "farl_unbusy", XSet(xBlk, me, "next_id", kSuccIdNoSuccessor))
  \/ /\ pc[t] = "farl_unbusy"
     /\ XReturn(t, "Ok", XSet(xBlk, me, "busy", FALSE), Word, grants)

finish_acquire_reader_lock(t) ==
  LET L == loc[t]
      me == MyTail(t)
      my == MyX(t)
  IN
  \/ /\ pc[t] = "farl_begin"   \* set_next_flag_busy_granted
     /\ StepBlk(t, "farl_spin_leaving",
                [xBlk EXCEPT ![t][L.block_index].state = BitOr(@, 2),
                             ![t][L.block_index].busy = TRUE])
  \/ /\ pc[t] = "farl_spin_leaving"
     /\ my.next_id # kSuccIdSuccessorLeaving
     /\ StepPc(t, "farl_tail")
  \/ /\ pc[t] = "farl_tail"
     /\ StepPc(t, IF rwTail = me THEN "farl_unbusy" ELSE "farl_spin_next")
  \/ /\ pc[t] = "farl_spin_next"
     /\ my.next_id # Zero32
     /\ StepPc(t, "farl_get_next")
  \/ /\ pc[t] = "farl_get_next"
     /\ StepLoc(t, IF my.next_id = kSuccIdNoSuccessor THEN "farl_unbusy" ELSE "farl_flags",
                [L EXCEPT !.next_id = my.next_id])
  \/ /\ pc[t] = "farl_flags"
     /\ StepPc(t, IF my.state = 3 /\ my.class = "none" THEN "farl_lg_spin"
                  ELSE IF my.class = "reader" THEN "farl_r_spin"
                  ELSE "farl_unbusy")
  \/ /\ pc[t] = "farl_r_spin"
     /\ XB(L.next_id).pred_id = me
     /\ StepPc(t, "farl_r_cas")
  \/ /\ pc[t] = "farl_r_cas"
     /\ IF XB(L.next_id).pred_id = me
        THEN StepBlk(t, "farl_inc", XSet(xBlk, L.next_id, "pred_id", kPredIdAcquired))
        ELSE StepPc(t, "farl_r_spin")
  \/ /\ pc[t] = "farl_inc"
     /\ StepNreaders(t, "farl_grant", IncrementNreaders(rwNreaders))
  \/ /\ pc[t] = "farl_grant"
     /\ StepGrant(t, "farl_set_next", L.next_id)
  \/ /\ pc[t] = "farl_set_next"
     /\ StepBlk(t, "farl_unbusy", XSet(xBlk, me, "next_id", kSuccIdNoSuccessor))
  \/ /\ pc[t] = "farl_unbusy"
     /\ XReturn(t, "Ok", XSet(xBlk, me, "busy", FALSE), Word, grants)

\* finish_acquire_reader_lock, the successor of a block that is leaving-granted: the
\* branch is taken only after the block's own cancel found it granted
finish_acquire_reader_lock_leaving_granted(t) ==
  LET L == loc[t]
      me == MyTail(t)
  IN
  \/ /\ pc[t] = "farl_lg_spin"
     /\ XB(L.next_id).pred_id = me
     /\ StepPc(t, "farl_lg_cas")
  \/ /\ pc[t] = "farl_lg_cas"
     /\ IF XB(L.next_id).pred_id = me
        THEN StepBlk(t, "farl_inc", XSet(xBlk, L.next_id, "pred_id", kPredIdAcquired))
        ELSE StepPc(t, "farl_unbusy")

\* a timeout_granted that gives up at once whatever the timeout
timeout_granted_GiveUp(t) ==
  /\ pc[t] = "tg"
  /\ IF MyX(t).granted
     THEN StepPc(t, IF loc[t].role = "R" THEN "farl_begin" ELSE "awl_set_granted")
     ELSE XReturn(t, "Requested", xBlk, Word, grants)

\* a timeout_granted that spins until granted whatever the timeout
timeout_granted_Spin(t) ==
  /\ pc[t] = "tg"
  /\ MyX(t).granted
  /\ StepPc(t, IF loc[t].role = "R" THEN "farl_begin" ELSE "awl_set_granted")

\* McsRwExtendedBlock::timeout_granted, with the timeouts the public API passes:
\* kTimeoutNever spins until granted, kTimeoutZero gives up when not granted
timeout_granted(t) ==
  /\ pc[t] = "tg"
  /\ IF MyX(t).granted
     THEN StepPc(t, IF loc[t].role = "R" THEN "farl_begin" ELSE "awl_set_granted")
     ELSE /\ loc[t].timeout = "zero"
          /\ XReturn(t, "Requested", xBlk, Word, grants)

acquire_reader_lock_check_reader_pred(t) ==
  LET L == loc[t]
      me == MyTail(t)
      p == L.pred
  IN
  \/ /\ pc[t] = "crp_spin"        \* !pred_block->get_next_id() ...
     /\ XB(p).next_id = Zero32
     /\ StepPc(t, "crp_spin_class")
  \/ /\ pc[t] = "crp_spin_class"  \* ... && !pred_block->next_flag_has_successor()
     /\ StepPc(t, IF XB(p).class = "none" THEN "crp_cas" ELSE "crp_spin")
  \/ /\ pc[t] = "crp_cas"         \* cas_val_next_flag_weak(waiting, waiting | reader)
     /\ LET val == FlagsOf(XB(p))
        IN IF val = NoFlags
           THEN StepBlk(t, "crp_link", XSet(xBlk, p, "class", "reader"))
           ELSE StepPc(t, IF val.state = 1 THEN "crp_lv_link" ELSE "crp_g_set_next")
  \/ /\ pc[t] = "crp_link"
     /\ StepBlk(t, "crp_set_pred", XSet(xBlk, p, "next_id", me))
  \/ /\ pc[t] = "crp_set_pred"
     /\ StepBlk(t, "tg", XSet(xBlk, me, "pred_id", p))
  \/ /\ pc[t] = "crp_g_set_next"  \* pred is granted and a reader: join it
     /\ StepBlk(t, "crp_g_inc", XSet(xBlk, p, "next_id", kSuccIdNoSuccessor))
  \/ /\ pc[t] = "crp_g_inc"
     /\ StepNreaders(t, "crp_g_grant", IncrementNreaders(rwNreaders))
  \/ /\ pc[t] = "crp_g_grant"
     /\ StepGrant(t, "farl_begin", me)

\* acquire_reader_lock_check_reader_pred, the predecessor's next flags say Leaving: the
\* predecessor is cancelling
acquire_reader_lock_check_reader_pred_leaving(t) ==
  LET L == loc[t]
      me == MyTail(t)
      p == L.pred
  IN
  \/ /\ pc[t] = "crp_lv_link"
     /\ StepBlk(t, "crp_lv_set_pred", XSet(xBlk, p, "next_id", me))
  \/ /\ pc[t] = "crp_lv_set_pred"
     /\ StepBlk(t, "crp_lv_spin", XSet(xBlk, me, "pred_id", p))
  \/ /\ pc[t] = "crp_lv_spin"
     /\ MyX(t).pred_id # p \/ MyX(t).granted
     /\ StepPc(t, "crp_lv_xchg")
  \/ /\ pc[t] = "crp_lv_xchg"     \* pred = my_block->xchg_pred_id(0)
     /\ LET np == MyX(t).pred_id
        IN StepLocBlk(t, IF np = kPredIdAcquired THEN "crp_lv_wait"
                         ELSE IF XB(np).reader THEN "crp_spin" ELSE "cwp_spin",
                      [L EXCEPT !.pred = np], XSet(xBlk, me, "pred_id", Zero32))
  \/ /\ pc[t] = "crp_lv_wait"
     /\ MyX(t).granted
     /\ StepPc(t, "farl_begin")

acquire_reader_lock_check_writer_pred(t) ==
  LET L == loc[t]
      me == MyTail(t)
      p == L.pred
  IN
  \/ /\ pc[t] = "cwp_spin"
     /\ XB(p).next_id = Zero32
     /\ StepPc(t, "cwp_spin_class")
  \/ /\ pc[t] = "cwp_spin_class"
     /\ StepPc(t, IF XB(p).class = "none" THEN "cwp_set_class" ELSE "cwp_spin")
  \/ /\ pc[t] = "cwp_set_class"   \* set_next_flag_reader_successor
     /\ StepBlk(t, "cwp_link", XSet(xBlk, p, "class", OrClass(XB(p).class, "reader")))
  \/ /\ pc[t] = "cwp_link"
     /\ StepBlk(t, "cwp_xchg", XSet(xBlk, p, "next_id", me))
  \/ /\ pc[t] = "cwp_xchg"        \* my_block->xchg_pred_id(pred)
     /\ StepLocBlk(t, "tg",
                   IF MyX(t).pred_id = kPredIdAcquired THEN [L EXCEPT !.timeout = "never"]
                   ELSE L,
                   XSet(xBlk, me, "pred_id", p))

\* an acquire_writer_lock that links itself behind its predecessor and never stores
\* the predecessor in its own pred id
acquire_writer_lock_NoPred(t) ==
  LET L == loc[t]
      me == MyTail(t)
      p == L.pred
  IN
  \/ /\ pc[t] = "awl_xchg"
     /\ XStep(t, IF rwTail = Zero32 THEN "awl_set_nw" ELSE "awl_spin",
              [L EXCEPT !.pred = rwTail], xBlk, <<me, rwNextWriter, rwNreaders>>,
              Append(enq, me), grants)
  \/ /\ pc[t] = "awl_set_nw"
     /\ StepNextWriter(t, "awl_chk_nr", t)
  \/ /\ pc[t] = "awl_chk_nr"
     /\ StepPc(t, IF rwNreaders = 0 THEN "awl_xchg_nw" ELSE "awl_xchg_pred")
  \/ /\ pc[t] = "awl_xchg_nw"
     /\ StepNextWriter(t, IF rwNextWriter = t THEN "awl_self_pred" ELSE "awl_xchg_pred",
                       kNextWriterNone)
  \/ /\ pc[t] = "awl_self_pred"   \* set_flags_granted: pred flag ...
     /\ StepGrant(t, "awl_self_next", me)
  \/ /\ pc[t] = "awl_self_next"   \* ... then next flag
     /\ XReturn(t, "Ok", XSet(xBlk, me, "state", BitOr(MyX(t).state, 2)), Word, grants)
  \/ /\ pc[t] = "awl_spin"        \* !pred_block->next_flag_has_successor() ...
     /\ XB(p).class = "none"
     /\ StepPc(t, "awl_spin_id")
  \/ /\ pc[t] = "awl_spin_id"     \* ... && !pred_block->get_next_id()
     /\ StepPc(t, IF XB(p).next_id = Zero32 THEN "awl_set_class" ELSE "awl_spin")
  \/ /\ pc[t] = "awl_set_class"   \* set_next_flag_writer_successor
     /\ StepBlk(t, "awl_link", XSet(xBlk, p, "class", OrClass(XB(p).class, "writer")))
  \/ /\ pc[t] = "awl_link"
     /\ StepBlk(t, "awl_xchg_pred", XSet(xBlk, p, "next_id", me))
  \/ /\ pc[t] = "awl_xchg_pred"   \* my_block->xchg_pred_id(pred)
     /\ StepLocBlk(t, "tg",
                   IF MyX(t).pred_id = kPredIdAcquired THEN [L EXCEPT !.timeout = "never"]
                   ELSE L,
                   xBlk)
  \/ /\ pc[t] = "awl_set_granted" \* set_next_flag_granted after timeout_granted
     /\ XReturn(t, "Ok", XSet(xBlk, me, "state", BitOr(MyX(t).state, 2)), Word, grants)

\* an acquire_writer_lock that reads next_writer where the code exchanges it for none
acquire_writer_lock_KeepNextWriter(t) ==
  LET L == loc[t]
      me == MyTail(t)
      p == L.pred
  IN
  \/ /\ pc[t] = "awl_xchg"
     /\ XStep(t, IF rwTail = Zero32 THEN "awl_set_nw" ELSE "awl_spin",
              [L EXCEPT !.pred = rwTail], xBlk, <<me, rwNextWriter, rwNreaders>>,
              Append(enq, me), grants)
  \/ /\ pc[t] = "awl_set_nw"
     /\ StepNextWriter(t, "awl_chk_nr", t)
  \/ /\ pc[t] = "awl_chk_nr"
     /\ StepPc(t, IF rwNreaders = 0 THEN "awl_xchg_nw" ELSE "awl_xchg_pred")
  \/ /\ pc[t] = "awl_xchg_nw"
     /\ StepPc(t, IF rwNextWriter = t THEN "awl_self_pred" ELSE "awl_xchg_pred")
  \/ /\ pc[t] = "awl_self_pred"   \* set_flags_granted: pred flag ...
     /\ StepGrant(t, "awl_self_next", me)
  \/ /\ pc[t] = "awl_self_next"   \* ... then next flag
     /\ XReturn(t, "Ok", XSet(xBlk, me, "state", BitOr(MyX(t).state, 2)), Word, grants)
  \/ /\ pc[t] = "awl_spin"        \* !pred_block->next_flag_has_successor() ...
     /\ XB(p).class = "none"
     /\ StepPc(t, "awl_spin_id")
  \/ /\ pc[t] = "awl_spin_id"     \* ... && !pred_block->get_next_id()
     /\ StepPc(t, IF XB(p).next_id = Zero32 THEN "awl_set_class" ELSE "awl_spin")
  \/ /\ pc[t] = "awl_set_class"   \* set_next_flag_writer_successor
     /\ StepBlk(t, "awl_link", XSet(xBlk, p, "class", OrClass(XB(p).class, "writer")))
  \/ /\ pc[t] = "awl_link"
     /\ StepBlk(t, "awl_xchg_pred", XSet(xBlk, p, "next_id", me))
  \/ /\ pc[t] = "awl_xchg_pred"   \* my_block->xchg_pred_id(pred)
     /\ StepLocBlk(t, "tg",
                   IF MyX(t).pred_id = kPredIdAcquired THEN [L EXCEPT !.timeout = "never"]
                   ELSE L,
                   XSet(xBlk, me, "pred_id", p))
  \/ /\ pc[t] = "awl_set_granted" \* set_next_flag_granted after timeout_granted
     /\ XReturn(t, "Ok", XSet(xBlk, me, "state", BitOr(MyX(t).state, 2)), Word, grants)

acquire_writer_lock(t) ==
  LET L == loc[t]
      me == MyTail(t)
      p == L.pred
  IN
  \/ /\ pc[t] = "awl_xchg"
     /\ XStep(t, IF rwTail = Zero32 THEN "awl_set_nw" ELSE "awl_spin",
              [L EXCEPT !.pred = rwTail], xBlk, <<me, rwNextWriter, rwNreaders>>,
              Append(enq, me), grants)
  \/ /\ pc[t] = "awl_set_nw"
     /\ StepNextWriter(t, "awl_chk_nr", t)
  \/ /\ pc[t] = "awl_chk_nr"
     /\ StepPc(t, IF rwNreaders = 0 THEN "awl_xchg_nw" ELSE "awl_xchg_pred")
  \/ /\ pc[t] = "awl_xchg_nw"
     /\ StepNextWriter(t, IF rwNextWriter = t THEN "awl_self_pred" ELSE "awl_xchg_pred",
                       kNextWriterNone)
  \/ /\ pc[t] = "awl_self_pred"   \* set_flags_granted: pred flag ...
     /\ StepGrant(t, "awl_self_next", me)
  \/ /\ pc[t] = "awl_self_next"   \* ... then next flag
     /\ XReturn(t, "Ok", XSet(xBlk, me, "state", BitOr(MyX(t).state, 2)), Word, grants)
  \/ /\ pc[t] = "awl_spin"        \* !pred_block->next_flag_has_successor() ...
     /\ XB(p).class = "none"
     /\ StepPc(t, "awl_spin_id")
  \/ /\ pc[t] = "awl_spin_id"     \* ... && !pred_block->get_next_id()
     /\ StepPc(t, IF XB(p).next_id = Zero32 THEN "awl_set_class" ELSE "awl_spin")
  \/ /\ pc[t] = "awl_set_class"   \* set_next_flag_writer_successor
     /\ StepBlk(t, "awl_link", XSet(xBlk, p, "class", OrClass(XB(p).class, "writer")))
  \/ /\ pc[t] = "awl_link"
     /\ StepBlk(t, "awl_xchg_pred", XSet(xBlk, p, "next_id", me))
  \/ /\ pc[t] = "awl_xchg_pred"   \* my_block->xchg_pred_id(pred)
     /\ StepLocBlk(t, "tg",
                   IF MyX(t).pred_id = kPredIdAcquired THEN [L EXCEPT !.timeout = "never"]
                   ELSE L,
                   XSet(xBlk, me, "pred_id", p))
  \/ /\ pc[t] = "awl_set_granted" \* set_next_flag_granted after timeout_granted
     /\ XReturn(t, "Ok", XSet(xBlk, me, "state", BitOr(MyX(t).state, 2)), Word, grants)

ExtHeld(t, role) == kind = "ext" /\ pc[t] = "held" /\ loc[t].role = role

release_reader_lock(t) ==
  LET L == loc[t]
      me == MyTail(t)
  IN
  \/ /\ ExtHeld(t, "R") \/ pc[t] = "rrl_begin"   \* set_next_flag_busy
     /\ StepBlk(t, "rrl_spin", XSet(xBlk, me, "busy", TRUE))
  \/ /\ pc[t] = "rrl_spin"
     /\ MyX(t).next_id # kSuccIdSuccessorLeaving
     /\ StepPc(t, "rrl_read")
  \/ /\ pc[t] = "rrl_read"
     /\ StepLoc(t, IF MyX(t).next_id = Zero32 THEN "rrl_cas"
                   ELSE IF MyX(t).next_id = kSuccIdNoSuccessor THEN "frrl_dec"
                   ELSE "rrl_succ",
                [L EXCEPT !.next_id = MyX(t).next_id])
  \/ /\ pc[t] = "rrl_cas"         \* cas_tail_weak(my_tail_int, 0)
     /\ IF rwTail = me THEN StepTail(t, "frrl_dec", Zero32) ELSE StepPc(t, "rrl_read")
  \/ /\ pc[t] = "rrl_succ"
     /\ StepPc(t, IF XB(L.next_id).reader THEN "rrl_r_inc" ELSE "rrl_w_set_nw")
  \/ /\ pc[t] = "rrl_w_set_nw"    \* lock->set_next_writer(next_id >> 16)
     /\ StepNextWriter(t, "rrl_w_cas", TailThread(L.next_id))
  \/ /\ pc[t] = "rrl_w_cas"       \* spin_until cas_pred_id_weak(my_tail_int, 0)
     /\ XB(L.next_id).pred_id = me
     /\ StepBlk(t, "frrl_dec", XSet(xBlk, L.next_id, "pred_id", Zero32))

\* release_reader_lock, the successor is a reader that was not granted by
\* finish_acquire_reader_lock: it linked in while this block was cancelling
release_reader_lock_reader_successor(t) ==
  LET L == loc[t]
      me == MyTail(t)
  IN
  \/ /\ pc[t] = "rrl_r_inc"
     /\ StepNreaders(t, "rrl_r_cas", IncrementNreaders(rwNreaders))
  \/ /\ pc[t] = "rrl_r_cas"       \* while (!cas_pred_id_weak(my_tail_int, Acquired))
     /\ XB(L.next_id).pred_id = me
     /\ StepBlk(t, "rrl_r_grant", XSet(xBlk, L.next_id, "pred_id", kPredIdAcquired))
  \/ /\ pc[t] = "rrl_r_grant"
     /\ StepGrant(t, "frrl_dec", L.next_id)

\* a finish_release_reader_lock that decrements nreaders only when it is the last reader
finish_release_reader_lock_NoDecrement(t) ==
  LET L == loc[t]
  IN
  \/ /\ pc[t] = "frrl_dec"        \* decrement_nreaders() > 1
     /\ IF rwNreaders > 1
        THEN XReturn(t, "Released", xBlk, Word, grants)
        ELSE StepNreaders(t, "frrl_load", DecrementNreaders(rwNreaders))
  \/ /\ pc[t] = "frrl_load"
     /\ IF rwNextWriter = kNextWriterNone
        THEN XReturn(t, "Released", xBlk, Word, grants)
        ELSE StepLoc(t, "frrl_chk", [L EXCEPT !.nw = rwNextWriter])
  \/ /\ pc[t] = "frrl_chk"
     /\ IF rwNreaders = 0 THEN StepPc(t, "frrl_cas") ELSE XReturn(t, "Released", xBlk, Word, grants)
  \/ /\ pc[t] = "frrl_cas"        \* cas_next_writer_weak(next_writer_id, none)
     /\ IF rwNextWriter = L.nw
        THEN StepNextWriter(t, "frrl_cur", kNextWriterNone)
        ELSE XReturn(t, "Released", xBlk, Word, grants)
  \/ /\ pc[t] = "frrl_cur"        \* adaptor_.get_other_cur_block(next_writer_id)
     /\ StepLoc(t, "frrl_wcas", [L EXCEPT !.nwb = curBlock[L.nw]])
  \/ /\ pc[t] = "frrl_wcas"       \* while (!wb->cas_pred_id_weak(0, Acquired))
     /\ xBlk[L.nw][L.nwb].pred_id = Zero32
     /\ StepBlk(t, "frrl_grant", [xBlk EXCEPT ![L.nw][L.nwb].pred_id = kPredIdAcquired])
  \/ /\ pc[t] = "frrl_grant"
     /\ XReturn(t, "Released", [xBlk EXCEPT ![L.nw][L.nwb].granted = TRUE], Word,
                Append(grants, ToTailInt(L.nw, L.nwb)))

\* finish_release_reader_lock that grants the next writer but leaves its id in next_writer
finish_release_reader_lock_KeepNextWriter(t) ==
  LET L == loc[t]
  IN
  \/ /\ pc[t] = "frrl_dec"        \* decrement_nreaders() > 1
     /\ IF rwNreaders > 1
        THEN XReturn(t, "Released", xBlk,
                     <<rwTail, rwNextWriter, DecrementNreaders(rwNreaders)>>, grants)
        ELSE StepNreaders(t, "frrl_load", DecrementNreaders(rwNreaders))
  \/ /\ pc[t] = "frrl_load"
     /\ IF rwNextWriter = kNextWriterNone
        THEN XReturn(t, "Released", xBlk, Word, grants)
        ELSE StepLoc(t, "frrl_chk", [L EXCEPT !.nw = rwNextWriter])
  \/ /\ pc[t] = "frrl_chk"
     /\ IF rwNreaders = 0 THEN StepPc(t, "frrl_cas") ELSE XReturn(t, "Released", xBlk, Word, grants)
  \/ /\ pc[t] = "frrl_cas"        \* cas_next_writer_weak(next_writer_id, none)
     /\ IF rwNextWriter = L.nw
        THEN StepPc(t, "frrl_cur")
        ELSE XReturn(t, "Released", xBlk, Word, grants)
  \/ /\ pc[t] = "frrl_cur"        \* adaptor_.get_other_cur_block(next_writer_id)
     /\ StepLoc(t, "frrl_wcas", [L EXCEPT !.nwb = curBlock[L.nw]])
  \/ /\ pc[t] = "frrl_wcas"       \* while (!wb->cas_pred_id_weak(0, Acquired))
     /\ xBlk[L.nw][L.nwb].pred_id = Zero32
     /\ StepBlk(t, "frrl_grant", [xBlk EXCEPT ![L.nw][L.nwb].pred_id = kPredIdAcquired])
  \/ /\ pc[t] = "frrl_grant"
     /\ XReturn(t, "Released", [xBlk EXCEPT ![L.nw][L.nwb].granted = TRUE], Word,
                Append(grants, ToTailInt(L.nw, L.nwb)))

finish_release_reader_lock(t) ==
  LET L == loc[t]
  IN
  \/ /\ pc[t] = "frrl_dec"        \* decrement_nreaders() > 1
     /\ IF rwNreaders > 1
        THEN XReturn(t, "Released", xBlk,
                     <<rwTail, rwNextWriter, DecrementNreaders(rwNreaders)>>, grants)
        ELSE StepNreaders(t, "frrl_load", DecrementNreaders(rwNreaders))
  \/ /\ pc[t] = "frrl_load"
     /\ IF rwNextWriter = kNextWriterNone
        THEN XReturn(t, "Released", xBlk, Word, grants)
        ELSE StepLoc(t, "frrl_chk", [L EXCEPT !.nw = rwNextWriter])
  \/ /\ pc[t] = "frrl_chk"
     /\ IF rwNreaders = 0 THEN StepPc(t, "frrl_cas") ELSE XReturn(t, "Released", xBlk, Word, grants)
  \/ /\ pc[t] = "frrl_cas"        \* cas_next_writer_weak(next_writer_id, none)
     /\ IF rwNextWriter = L.nw
        THEN StepNextWriter(t, "frrl_cur", kNextWriterNone)
        ELSE XReturn(t, "Released", xBlk, Word, grants)
  \/ /\ pc[t] = "frrl_cur"        \* adaptor_.get_other_cur_block(next_writer_id)
     /\ StepLoc(t, "frrl_wcas", [L EXCEPT !.nwb = curBlock[L.nw]])
  \/ /\ pc[t] = "frrl_wcas"       \* while (!wb->cas_pred_id_weak(0, Acquired))
     /\ xBlk[L.nw][L.nwb].pred_id = Zero32
     /\ StepBlk(t, "frrl_grant", [xBlk EXCEPT ![L.nw][L.nwb].pred_id = kPredIdAcquired])
  \/ /\ pc[t] = "frrl_grant"
     /\ XReturn(t, "Released", [xBlk EXCEPT ![L.nw][L.nwb].granted = TRUE], Word,
                Append(grants, ToTailInt(L.nw, L.nwb)))

\* a release that hands the lock to its successor without setting pred_flags = Granted
release_writer_lock_NoGrant(t) ==
  LET L == loc[t]
      me == MyTail(t)
  IN
  \/ /\ ExtHeld(t, "W") \/ pc[t] = "rwl_begin"   \* set_next_flag_busy
     /\ StepBlk(t, "rwl_spin", XSet(xBlk, me, "busy", TRUE))
  \/ /\ pc[t] = "rwl_spin"
     /\ MyX(t).next_id # kSuccIdSuccessorLeaving
     /\ StepPc(t, "rwl_read")
  \/ /\ pc[t] = "rwl_read"
     /\ StepLoc(t, IF MyX(t).next_id = Zero32 THEN "rwl_cas" ELSE "rwl_pcas",
                [L EXCEPT !.next_id = MyX(t).next_id])
  \/ /\ pc[t] = "rwl_cas"         \* cas_tail_weak(my_tail_int, 0)
     /\ IF rwTail = me THEN XReturn(t, "Released", xBlk, <<Zero32, rwNextWriter, rwNreaders>>, grants) ELSE StepPc(t, "rwl_read")
  \/ /\ pc[t] = "rwl_pcas"        \* while (!cas_pred_id_weak(my_tail_int, Acquired))
     /\ XB(L.next_id).pred_id = me
     /\ StepBlk(t, "rwl_class", XSet(xBlk, L.next_id, "pred_id", kPredIdAcquired))
  \/ /\ pc[t] = "rwl_class"
     /\ StepPc(t, IF XB(L.next_id).reader THEN "rwl_inc" ELSE "rwl_grant")
  \/ /\ pc[t] = "rwl_inc"
     /\ StepNreaders(t, "rwl_grant", IncrementNreaders(rwNreaders))
  \/ /\ pc[t] = "rwl_grant"
     /\ XReturn(t, "Released", xBlk, Word, grants)

release_writer_lock(t) ==
  LET L == loc[t]
      me == MyTail(t)
  IN
  \/ /\ ExtHeld(t, "W") \/ pc[t] = "rwl_begin"   \* set_next_flag_busy
     /\ StepBlk(t, "rwl_spin", XSet(xBlk, me, "busy", TRUE))
  \/ /\ pc[t] = "rwl_spin"
     /\ MyX(t).next_id # kSuccIdSuccessorLeaving
     /\ StepPc(t, "rwl_read")
  \/ /\ pc[t] = "rwl_read"
     /\ StepLoc(t, IF MyX(t).next_id = Zero32 THEN "rwl_cas" ELSE "rwl_pcas",
                [L EXCEPT !.next_id = MyX(t).next_id])
  \/ /\ pc[t] = "rwl_cas"         \* cas_tail_weak(my_tail_int, 0)
     /\ IF rwTail = me THEN XReturn(t, "Released", xBlk, <<Zero32, rwNextWriter, rwNreaders>>, grants) ELSE StepPc(t, "rwl_read")
  \/ /\ pc[t] = "rwl_pcas"        \* while (!cas_pred_id_weak(my_tail_int, Acquired))
     /\ XB(L.next_id).pred_id = me
     /\ StepBlk(t, "rwl_class", XSet(xBlk, L.next_id, "pred_id", kPredIdAcquired))
  \/ /\ pc[t] = "rwl_class"
     /\ StepPc(t, IF XB(L.next_id).reader THEN "rwl_inc" ELSE "rwl_grant")
  \/ /\ pc[t] = "rwl_inc"
     /\ StepNreaders(t, "rwl_grant", IncrementNreaders(rwNreaders))
  \/ /\ pc[t] = "rwl_grant"
     /\ XReturn(t, "Released", XSet(xBlk, L.next_id, "granted", TRUE), Word,
                Append(grants, L.next_id))

\* a try that installs its tail without comparing the lock word with the empty one
acquire_try_rw_writer_Blind(t) ==
  \/ init_block(t, "acquire_try_rw_writer", "W", "try", "none", "xtw_cas",
                [ExtInitWriter EXCEPT !.granted = TRUE, !.state = 2])
  \/ /\ pc[t] = "xtw_cas"
     /\ XReturnEnq(t, "Ok", xBlk, <<MyTail(t), kNextWriterNone, 0>>,
                   Append(enq, MyTail(t)), Append(grants, MyTail(t)))

\* acquire_try_rw_writer: the block is initialised and marked granted before the weak
\* compare-exchange of the whole lock word
acquire_try_rw_writer(t) ==
  \/ init_block(t, "acquire_try_rw_writer", "W", "try", "none", "xtw_cas",
                [ExtInitWriter EXCEPT !.granted = TRUE, !.state = 2])
  \/ /\ pc[t] = "xtw_cas"
     /\ \E attempt \in BOOLEAN :
          IF attempt /\ Word = <<Zero32, kNextWriterNone, 0>>
          THEN XReturnEnq(t, "Ok", xBlk, <<MyTail(t), kNextWriterNone, 0>>,
                          Append(enq, MyTail(t)), Append(grants, MyTail(t)))
          ELSE XReturn(t, "TryFail", xBlk, Word, grants)

acquire_try_rw_reader(t) ==
  LET L == loc[t]
      me == MyTail(t)
  IN
  \/ init_block(t, "acquire_try_rw_reader", "R", "try", "none", "xtr_load", ExtZero)
  \/ /\ pc[t] = "xtr_load"
     /\ IF rwNextWriter # kNextWriterNone
        THEN XReturn(t, "TryFail", xBlk, Word, grants)
        ELSE StepLoc(t, IF rwTail = Zero32 THEN "xtr_cas" ELSE "xtr_peek",
                     [L EXCEPT !.lock_word = Word])
  \/ /\ pc[t] = "xtr_peek"
     /\ LET b == XB(L.lock_word[1])
        IN StepPc(t, IF b.granted /\ b.reader THEN "xtr_cas" ELSE "xtr_load")
  \/ /\ pc[t] = "xtr_cas"         \* init_reader, then the weak compare-exchange
     /\ \E attempt \in BOOLEAN :
          IF attempt /\ Word = L.lock_word
          THEN XStep(t, IF L.lock_word[1] # Zero32 THEN "xtr_set_next" ELSE "xtr_grant",
                     L, [xBlk EXCEPT ![t][L.block_index] = ExtInitReader],
                     <<me, L.lock_word[2], IncrementNreaders(L.lock_word[3])>>,
                     Append(enq, me), grants)
          ELSE StepBlk(t, "xtr_load", [xBlk EXCEPT ![t][L.block_index] = ExtInitReader])
  \/ /\ pc[t] = "xtr_set_next"    \* block->set_next_id(kSuccIdNoSuccessor)
     /\ StepBlk(t, "xtr_grant", XSet(xBlk, L.lock_word[1], "next_id", kSuccIdNoSuccessor))
  \/ /\ pc[t] = "xtr_grant"
     /\ StepGrant(t, "farl_begin", me)

\* block x waits behind a block whose owner holds the lock and has not called release, and
\* a block that waits is linked behind x
ExtInMiddle(x) ==
  /\ ~XB(x).granted
  /\ XB(x).pred_id \notin {Zero32, kPredIdAcquired}
  /\ pc[TailThread(XB(x).pred_id)] = "held"
  /\ XB(XB(x).pred_id).next_id = x
  /\ XB(x).next_id \notin {Zero32, kSuccIdSuccessorLeaving, kSuccIdNoSuccessor}
  /\ XB(XB(x).next_id).pred_id = x
  /\ pc[TailThread(XB(x).next_id)] \in {"tg", "requested"}

ExtRequested(t, role, call) ==
  /\ kind = "ext" /\ pc[t] = "requested" /\ loc[t].role = role
  /\ call \in client[t].calls

retry_async_rw_reader(t) ==
  /\ ExtRequested(t, "R", "retry_async_rw_reader")
  /\ IF MyX(t).granted
     THEN StepLoc(t, "farl_begin", [loc[t] EXCEPT !.api = "retry"])
     ELSE /\ ret' = [ret EXCEPT ![t] = "RetryFail"]
          /\ UNCHANGED <<pc, loc, curBlock, ops, rwWord, xBlk, hist, cancels, midCancels>>
          /\ UNCHANGED notExt

\* a retry that takes the lock without looking at the pred flag
retry_async_rw_writer_Blind(t) ==
  /\ ExtRequested(t, "W", "retry_async_rw_writer")
  /\ StepLoc(t, "awl_set_granted", [loc[t] EXCEPT !.api = "retry"])

retry_async_rw_writer(t) ==
  /\ ExtRequested(t, "W", "retry_async_rw_writer")
  /\ IF MyX(t).granted
     THEN StepLoc(t, "awl_set_granted", [loc[t] EXCEPT !.api = "retry"])
     ELSE /\ ret' = [ret EXCEPT ![t] = "RetryFail"]
          /\ UNCHANGED <<pc, loc, curBlock, ops, rwWord, xBlk, hist, cancels, midCancels>>
          /\ UNCHANGED notExt

\* cancel_async_rw_reader: retry first; when that fails, cancel_reader_lock
cancel_async_rw_reader(t) ==
  /\ ExtRequested(t, "R", "cancel_async_rw_reader")
  /\ pc' = [pc EXCEPT ![t] = IF MyX(t).granted THEN "farl_begin" ELSE "crl_xchg"]
  /\ loc' = [loc EXCEPT ![t].api = "cancel"]
  /\ cancels' = cancels \cup {MyTail(t)}
  /\ midCancels' = IF ExtInMiddle(MyTail(t)) THEN midCancels \cup {MyTail(t)} ELSE midCancels
  /\ UNCHANGED <<curBlock, ops, ret, rwWord, xBlk, hist>> /\ UNCHANGED notExt

\* a cancel that reports LockCancelled without running cancel_writer_lock
cancel_async_rw_writer_NoSplice(t) ==
  /\ ExtRequested(t, "W", "cancel_async_rw_writer")
  /\ Return(t, "idle", "Cancelled")
  /\ cancels' = cancels \cup {MyTail(t)}
  /\ midCancels' = IF ExtInMiddle(MyTail(t)) THEN midCancels \cup {MyTail(t)} ELSE midCancels
  /\ UNCHANGED <<curBlock, ops, rwWord, xBlk, hist>> /\ UNCHANGED notExt

cancel_async_rw_writer(t) ==
  /\ ExtRequested(t, "W", "cancel_async_rw_writer")
  /\ pc' = [pc EXCEPT ![t] = "cwl_xchg"]
  /\ loc' = [loc EXCEPT ![t].api = "cancel"]
  /\ cancels' = cancels \cup {MyTail(t)}
  /\ midCancels' = IF ExtInMiddle(MyTail(t)) THEN midCancels \cup {MyTail(t)} ELSE midCancels
  /\ UNCHANGED <<curBlock, ops, ret, rwWord, xBlk, hist>> /\ UNCHANGED notExt

\* a cancel that gives up with LockCancelled although its xchg read PredIdAcquired
cancel_reader_lock_Refuse(t) ==
  LET L == loc[t]
      me == MyTail(t)
  IN
  \/ /\ pc[t] = "crl_xchg" /\ MyX(t).pred_id = kPredIdAcquired
     /\ XReturn(t, "Cancelled", XSet(xBlk, me, "pred_id", Zero32), Word, grants)
  \/ /\ pc[t] = "crl_xchg" /\ MyX(t).pred_id # kPredIdAcquired
     /\ StepLocBlk(t, "crl_leaving", [L EXCEPT !.pred = MyX(t).pred_id],
                   XSet(xBlk, me, "pred_id", Zero32))
  \/ /\ pc[t] = "crl_leaving"
     /\ StepBlk(t, "crl_spin", XSet(xBlk, me, "state", BitOr(MyX(t).state, 1)))
  \/ /\ pc[t] = "crl_spin"
     /\ MyX(t).next_id # kSuccIdSuccessorLeaving
     /\ StepPc(t, IF XB(L.pred).reader THEN "crr_spin" ELSE "crw_spin")

cancel_reader_lock(t) ==
  LET L == loc[t]
      me == MyTail(t)
  IN
  \/ /\ pc[t] = "crl_xchg"        \* pred = my_block->xchg_pred_id(0)
     /\ StepLocBlk(t, IF MyX(t).pred_id = kPredIdAcquired THEN "crl_wait" ELSE "crl_leaving",
                   [L EXCEPT !.pred = MyX(t).pred_id], XSet(xBlk, me, "pred_id", Zero32))
  \/ /\ pc[t] = "crl_wait"
     /\ MyX(t).granted
     /\ StepPc(t, "farl_begin")
  \/ /\ pc[t] = "crl_leaving"     \* set_next_flag_leaving
     /\ StepBlk(t, "crl_spin", XSet(xBlk, me, "state", BitOr(MyX(t).state, 1)))
  \/ /\ pc[t] = "crl_spin"
     /\ MyX(t).next_id # kSuccIdSuccessorLeaving
     /\ StepPc(t, IF XB(L.pred).reader THEN "crr_spin" ELSE "crw_spin")

\* the tail of both cancel_reader_lock_with_*_pred and of cancel_writer_lock when the
\* tail was swung back to pred: clear pred's successor class, then its next id
cancel_unlink_pred(t) ==
  LET p == loc[t].pred
  IN
  \/ /\ pc[t] = "c_no_succ"       \* pred_block->set_next_flag_no_successor()
     /\ StepBlk(t, "c_clear_id", XSet(xBlk, p, "class", "none"))
  \/ /\ pc[t] = "c_clear_id"      \* pred_block->set_next_id(0)
     /\ XReturn(t, "Cancelled", XSet(xBlk, p, "next_id", Zero32), Word, grants)

cancel_reader_lock_with_writer_pred(t) ==
  LET L == loc[t]
      me == MyTail(t)
      p == L.pred
  IN
  \/ /\ pc[t] = "crw_spin"        \* pred_block->get_next_id() == my_tail_int ...
     /\ XB(p).next_id = me
     /\ StepPc(t, "crw_spin_class")
  \/ /\ pc[t] = "crw_spin_class"  \* ... && pred_block->next_flag_has_reader_successor()
     /\ StepPc(t, IF XB(p).class = "reader" THEN "crw_eflags" ELSE "crw_spin")
  \/ /\ pc[t] = "crw_eflags"
     /\ LET f == FlagsOf(XB(p))
        IN StepLoc(t, IF f.state = 1 THEN "crw_lv_set_pred"
                      ELSE IF f.busy THEN "crw_b_set_pred"
                      ELSE "crw_cas",
                   [L EXCEPT !.eflags = f])
  \/ /\ pc[t] = "crw_lv_set_pred"
     /\ StepBlk(t, "crw_lv_spin", XSet(xBlk, me, "pred_id", p))
  \/ /\ pc[t] = "crw_lv_spin"
     /\ MyX(t).pred_id # p
     /\ StepPc(t, "crw_lv_xchg")
  \/ /\ pc[t] = "crw_lv_xchg"
     /\ LET np == MyX(t).pred_id
        IN StepLocBlk(t, IF np = kPredIdAcquired THEN "crl_wait"
                         ELSE IF XB(np).reader THEN "crr_spin" ELSE "crw_spin",
                      [L EXCEPT !.pred = np, !.eflags = NoFlags],
                      XSet(xBlk, me, "pred_id", Zero32))
  \/ /\ pc[t] = "crw_b_set_pred"
     /\ StepBlk(t, "crl_wait", XSet(xBlk, me, "pred_id", p))
  \/ /\ pc[t] = "crw_cas"         \* cas_next_weak(eflags | me, eflags | SuccessorLeaving)
     /\ IF FlagsOf(XB(p)) = L.eflags /\ XB(p).next_id = me
        THEN StepBlk(t, "crw_chk_next", XSet(xBlk, p, "next_id", kSuccIdSuccessorLeaving))
        ELSE StepPc(t, "crw_eflags")
  \/ /\ pc[t] = "crw_chk_next"
     /\ StepPc(t, IF MyX(t).next_id = Zero32 THEN "crw_cas_tail" ELSE "crel_spin")
  \/ /\ pc[t] = "crw_cas_tail"    \* lock->cas_tail_weak(my_tail_int, pred)
     /\ IF rwTail = me THEN StepTail(t, "c_no_succ", p) ELSE StepPc(t, "crel_spin")

cancel_reader_lock_with_reader_pred(t) ==
  LET L == loc[t]
      me == MyTail(t)
      p == L.pred
  IN
  \/ /\ pc[t] = "crr_spin"        \* pred_block->next_flag_has_reader_successor() ...
     /\ XB(p).class = "reader"
     /\ StepPc(t, "crr_spin_id")
  \/ /\ pc[t] = "crr_spin_id"     \* ... && pred_block->get_next_id() == my_tail_int
     /\ StepPc(t, IF XB(p).next_id = me THEN "crr_cas" ELSE "crr_spin")
  \/ /\ pc[t] = "crr_cas"         \* cas_val_next_weak(waiting|reader|me, ..|SuccessorLeaving)
     /\ LET val == FlagsOf(XB(p))
        IN IF val = [NoFlags EXCEPT !.class = "reader"] /\ XB(p).next_id = me
           THEN StepBlk(t, "crr_chk_succ", XSet(xBlk, p, "next_id", kSuccIdSuccessorLeaving))
           ELSE StepPc(t, IF val.state \in {2, 3} THEN "crr_g_set_pred"
                          ELSE "crr_lv_set_pred")
  \/ /\ pc[t] = "crr_g_set_pred"
     /\ StepBlk(t, "crl_wait", XSet(xBlk, me, "pred_id", p))
  \/ /\ pc[t] = "crr_lv_set_pred"
     /\ StepBlk(t, "crr_lv_spin", XSet(xBlk, me, "pred_id", p))
  \/ /\ pc[t] = "crr_lv_spin"
     /\ MyX(t).pred_id # p \/ MyX(t).granted
     /\ StepPc(t, "crr_lv_xchg")
  \/ /\ pc[t] = "crr_lv_xchg"
     /\ LET np == MyX(t).pred_id
        IN StepLocBlk(t, IF np = kPredIdAcquired THEN "crl_wait"
                         ELSE IF XB(np).reader THEN "crr_spin" ELSE "crw_spin",
                      [L EXCEPT !.pred = np], XSet(xBlk, me, "pred_id", Zero32))
  \/ /\ pc[t] = "crr_chk_succ"    \* !my_block->next_flag_has_successor()
     /\ StepPc(t, IF MyX(t).class = "none" THEN "crr_cas_tail" ELSE "crel_spin")
  \/ /\ pc[t] = "crr_cas_tail"    \* lock->cas_tail_weak(my_tail_int, pred)
     /\ IF rwTail = me THEN StepTail(t, "c_no_succ", p) ELSE StepPc(t, "crel_spin")

\* a relink that returns once the successor is known, handing it no new predecessor
cancel_reader_lock_relink_NoRelink(t) ==
  /\ pc[t] = "crel_spin"
  /\ MyX(t).next_id # Zero32
  /\ XReturn(t, "Cancelled", xBlk, Word, grants)

\* a relink that does not carry pred's Busy bit over into the new value of pred's next
cancel_reader_lock_relink_DropBusy(t) ==
  LET L == loc[t]
      me == MyTail(t)
      p == L.pred
  IN
  \/ /\ pc[t] = "crel_spin"
     /\ MyX(t).next_id # Zero32
     /\ StepPc(t, "crel_read")
  \/ /\ pc[t] = "crel_read"
     /\ StepLoc(t, "crel_pcas", [L EXCEPT !.next_id = MyX(t).next_id])
  \/ /\ pc[t] = "crel_pcas"       \* while (!succ_block->cas_pred_id_weak(my_tail_int, pred))
     /\ XB(L.next_id).pred_id = me
     /\ StepBlk(t, "crel_class", XSet(xBlk, L.next_id, "pred_id", p))
  \/ /\ pc[t] = "crel_class"      \* successor class taken from my next flags
     /\ StepLoc(t, "crel_get",
                [L EXCEPT !.succ_class = IF MyX(t).class \in {"reader", "writer"}
                                         THEN MyX(t).class ELSE "none"])
  \/ /\ pc[t] = "crel_get"        \* expected = pred_block->get_next()
     /\ StepLoc(t, "crel_cas", [L EXCEPT !.eflags = FlagsOf(XB(p)), !.exp_id = XB(p).next_id])
  \/ /\ pc[t] = "crel_cas"        \* cas_next_weak(expected, successor | state | busy)
     /\ IF FlagsOf(XB(p)) = L.eflags /\ XB(p).next_id = L.exp_id
        THEN XReturn(t, "Cancelled",
                     [xBlk EXCEPT ![TailThread(p)][TailBlock(p)] =
                        [@ EXCEPT !.class = L.succ_class, !.busy = FALSE,
                                  !.next_id = IF L.succ_class = "none" THEN Zero32
                                              ELSE L.next_id]],
                     Word, grants)
        ELSE StepPc(t, "crel_get")

\* cancel_reader_lock_relink; cancel_writer_lock ends with the same statements inline
cancel_reader_lock_relink(t) ==
  LET L == loc[t]
      me == MyTail(t)
      p == L.pred
  IN
  \/ /\ pc[t] = "crel_spin"
     /\ MyX(t).next_id # Zero32
     /\ StepPc(t, "crel_read")
  \/ /\ pc[t] = "crel_read"
     /\ StepLoc(t, "crel_pcas", [L EXCEPT !.next_id = MyX(t).next_id])
  \/ /\ pc[t] = "crel_pcas"       \* while (!succ_block->cas_pred_id_weak(my_tail_int, pred))
     /\ XB(L.next_id).pred_id = me
     /\ StepBlk(t, "crel_class", XSet(xBlk, L.next_id, "pred_id", p))
  \/ /\ pc[t] = "crel_class"      \* successor class taken from my next flags
     /\ StepLoc(t, "crel_get",
                [L EXCEPT !.succ_class = IF MyX(t).class \in {"reader", "writer"}
                                         THEN MyX(t).class ELSE "none"])
  \/ /\ pc[t] = "crel_get"        \* expected = pred_block->get_next()
     /\ StepLoc(t, "crel_cas", [L EXCEPT !.eflags = FlagsOf(XB(p)), !.exp_id = XB(p).next_id])
  \/ /\ pc[t] = "crel_cas"        \* cas_next_weak(expected, successor | state | busy)
     /\ IF FlagsOf(XB(p)) = L.eflags /\ XB(p).next_id = L.exp_id
        THEN XReturn(t, "Cancelled",
                     [xBlk EXCEPT ![TailThread(p)][TailBlock(p)] =
                        [@ EXCEPT !.class = L.succ_class,
                                  !.next_id = IF L.succ_class = "none" THEN Zero32
                                              ELSE L.next_id]],
                     Word, grants)
        ELSE StepPc(t, "crel_get")

\* a cancel_writer_lock that treats a busy writer predecessor like a busy reader one
cancel_writer_lock_BusyRetry(t) ==
  LET L == loc[t]
      me == MyTail(t)
      p == L.pred
  IN
  \/ /\ pc[t] = "cwl_xchg"        \* pred = my_block->xchg_pred_id(0)
     /\ StepLocBlk(t, IF MyX(t).pred_id = kPredIdAcquired THEN "cwl_wait" ELSE "cwl_leaving",
                   [L EXCEPT !.pred = MyX(t).pred_id], XSet(xBlk, me, "pred_id", Zero32))
  \/ /\ pc[t] = "cwl_wait"
     /\ MyX(t).granted
     /\ StepPc(t, "awl_set_granted")
  \/ /\ pc[t] = "cwl_leaving"     \* set_next_flag_leaving
     /\ StepBlk(t, "cwl_spin", XSet(xBlk, me, "state", BitOr(MyX(t).state, 1)))
  \/ /\ pc[t] = "cwl_spin"
     /\ MyX(t).next_id # kSuccIdSuccessorLeaving
     /\ StepPc(t, IF p = Zero32 THEN "cnp_spin" ELSE "cwl_pspin")
  \/ /\ pc[t] = "cwl_pspin"       \* pred_block->get_next_id() == my_tail_int ...
     /\ XB(p).next_id = me
     /\ StepPc(t, "cwl_pspin_class")
  \/ /\ pc[t] = "cwl_pspin_class" \* ... && pred_block->next_flag_has_writer_successor()
     /\ StepPc(t, IF XB(p).class = "writer" THEN "cwl_eflags" ELSE "cwl_pspin")
  \/ /\ pc[t] = "cwl_eflags"
     /\ LET f == FlagsOf(XB(p))
        IN StepLoc(t, IF f.state = 1 THEN "cwl_lv_set_pred"
                      ELSE IF f.busy
                           THEN (IF XB(p).reader THEN "cwl_br_set_pred" ELSE "cwl_bw_set_pred")
                      ELSE "cwl_cas",
                   [L EXCEPT !.eflags = f])
  \/ /\ pc[t] = "cwl_lv_set_pred"
     /\ StepBlk(t, "cwl_lv_spin", XSet(xBlk, me, "pred_id", p))
  \/ /\ pc[t] = "cwl_lv_spin"
     /\ MyX(t).pred_id # p
     /\ StepPc(t, "cwl_new_pred")
  \/ /\ pc[t] = "cwl_bw_set_pred"
     /\ StepBlk(t, "cwl_new_pred", XSet(xBlk, me, "pred_id", p))
  \/ /\ pc[t] = "cwl_br_set_pred"
     /\ StepBlk(t, "cwl_new_pred", XSet(xBlk, me, "pred_id", p))
  \/ /\ pc[t] = "cwl_new_pred"    \* pred = my_block->xchg_pred_id(0)
     /\ LET np == MyX(t).pred_id
        IN StepLocBlk(t, IF np = Zero32 THEN "cnp_spin"
                         ELSE IF np = kPredIdAcquired THEN "cwl_wait"
                         ELSE "cwl_pspin",
                      [L EXCEPT !.pred = np, !.eflags = NoFlags],
                      XSet(xBlk, me, "pred_id", Zero32))
  \/ /\ pc[t] = "cwl_cas"         \* cas_val_next_weak(eflags | me, eflags | SuccessorLeaving)
     /\ IF FlagsOf(XB(p)) = L.eflags /\ XB(p).next_id = me
        THEN StepBlk(t, "cwl_chk_next", XSet(xBlk, p, "next_id", kSuccIdSuccessorLeaving))
        ELSE StepPc(t, "cwl_pspin")
  \/ /\ pc[t] = "cwl_chk_next"
     /\ StepPc(t, IF MyX(t).next_id = Zero32 THEN "cwl_cas_tail" ELSE "crel_spin")
  \/ /\ pc[t] = "cwl_cas_tail"    \* lock->cas_tail_weak(my_tail_int, pred)
     /\ IF rwTail = me THEN StepTail(t, "c_no_succ", p) ELSE StepPc(t, "crel_spin")

cancel_writer_lock(t) ==
  LET L == loc[t]
      me == MyTail(t)
      p == L.pred
  IN
  \/ /\ pc[t] = "cwl_xchg"        \* pred = my_block->xchg_pred_id(0)
     /\ StepLocBlk(t, IF MyX(t).pred_id = kPredIdAcquired THEN "cwl_wait" ELSE "cwl_leaving",
                   [L EXCEPT !.pred = MyX(t).pred_id], XSet(xBlk, me, "pred_id", Zero32))
  \/ /\ pc[t] = "cwl_wait"
     /\ MyX(t).granted
     /\ StepPc(t, "awl_set_granted")
  \/ /\ pc[t] = "cwl_leaving"     \* set_next_flag_leaving
     /\ StepBlk(t, "cwl_spin", XSet(xBlk, me, "state", BitOr(MyX(t).state, 1)))
  \/ /\ pc[t] = "cwl_spin"
     /\ MyX(t).next_id # kSuccIdSuccessorLeaving
     /\ StepPc(t, IF p = Zero32 THEN "cnp_spin" ELSE "cwl_pspin")
  \/ /\ pc[t] = "cwl_pspin"       \* pred_block->get_next_id() == my_tail_int ...
     /\ XB(p).next_id = me
     /\ StepPc(t, "cwl_pspin_class")
  \/ /\ pc[t] = "cwl_pspin_class" \* ... && pred_block->next_flag_has_writer_successor()
     /\ StepPc(t, IF XB(p).class = "writer" THEN "cwl_eflags" ELSE "cwl_pspin")
  \/ /\ pc[t] = "cwl_eflags"
     /\ LET f == FlagsOf(XB(p))
        IN StepLoc(t, IF f.state = 1 THEN "cwl_lv_set_pred"
                      ELSE IF f.busy
                           THEN (IF XB(p).reader THEN "cwl_br_set_pred" ELSE "cwl_bw_set_pred")
                      ELSE "cwl_cas",
                   [L EXCEPT !.eflags = f])
  \/ /\ pc[t] = "cwl_lv_set_pred"
     /\ StepBlk(t, "cwl_lv_spin", XSet(xBlk, me, "pred_id", p))
  \/ /\ pc[t] = "cwl_lv_spin"
     /\ MyX(t).pred_id # p
     /\ StepPc(t, "cwl_new_pred")
  \/ /\ pc[t] = "cwl_bw_set_pred"
     /\ StepBlk(t, "cwl_wait", XSet(xBlk, me, "pred_id", p))
  \/ /\ pc[t] = "cwl_br_set_pred"
     /\ StepBlk(t, "cwl_new_pred", XSet(xBlk, me, "pred_id", p))
  \/ /\ pc[t] = "cwl_new_pred"    \* pred = my_block->xchg_pred_id(0)
     /\ LET np == MyX(t).pred_id
        IN StepLocBlk(t, IF np = Zero32 THEN "cnp_spin"
                         ELSE IF np = kPredIdAcquired THEN "cwl_wait"
                         ELSE "cwl_pspin",
                      [L EXCEPT !.pred = np, !.eflags = NoFlags],
                      XSet(xBlk, me, "pred_id", Zero32))
  \/ /\ pc[t] = "cwl_cas"         \* cas_val_next_weak(eflags | me, eflags | SuccessorLeaving)
     /\ IF FlagsOf(XB(p)) = L.eflags /\ XB(p).next_id = me
        THEN StepBlk(t, "cwl_chk_next", XSet(xBlk, p, "next_id", kSuccIdSuccessorLeaving))
        ELSE StepPc(t, "cwl_pspin")
  \/ /\ pc[t] = "cwl_chk_next"
     /\ StepPc(t, IF MyX(t).next_id = Zero32 THEN "cwl_cas_tail" ELSE "crel_spin")
  \/ /\ pc[t] = "cwl_cas_tail"    \* lock->cas_tail_weak(my_tail_int, pred)
     /\ IF rwTail = me THEN StepTail(t, "c_no_succ", p) ELSE StepPc(t, "crel_spin")

\* cancel_writer_lock_no_pred that leaves its own id in next_writer when it withdraws
cancel_writer_lock_no_pred_KeepNextWriter(t) ==
  LET L == loc[t]
      me == MyTail(t)
  IN
  \/ /\ pc[t] = "cnp_spin"
     /\ rwNextWriter # kNextWriterNone \/ MyX(t).granted
     /\ StepPc(t, "cnp_chk")
  \/ /\ pc[t] = "cnp_chk"
     /\ StepPc(t, IF MyX(t).granted THEN "cwl_wait" ELSE "cnp_cas_nw")
  \/ /\ pc[t] = "cnp_cas_nw"      \* lock->cas_next_writer_weak(my id, none)
     /\ IF rwNextWriter = t
        THEN StepPc(t, "cnp_chk_next")
        ELSE StepPc(t, "cwl_wait")
  \/ /\ pc[t] = "cnp_chk_next"
     /\ StepPc(t, IF MyX(t).next_id = Zero32 THEN "cnp_cas_tail" ELSE "cnp_spin_next")
  \/ /\ pc[t] = "cnp_cas_tail"    \* lock->cas_tail_weak(my_tail_int, 0)
     /\ IF rwTail = me
        THEN XReturn(t, "Cancelled", xBlk, <<Zero32, rwNextWriter, rwNreaders>>, grants)
        ELSE StepPc(t, "cnp_spin_next")
  \/ /\ pc[t] = "cnp_spin_next"
     /\ MyX(t).next_id # Zero32
     /\ StepPc(t, "cnp_read")
  \/ /\ pc[t] = "cnp_read"
     /\ StepLoc(t, IF XB(MyX(t).next_id).reader THEN "cnp_r_cas" ELSE "cnp_w_set_nw",
                [L EXCEPT !.next_id = MyX(t).next_id])
  \/ /\ pc[t] = "cnp_w_set_nw"    \* lock->set_next_writer(next_id >> 16)
     /\ StepNextWriter(t, "cnp_w_cas", TailThread(L.next_id))
  \/ /\ pc[t] = "cnp_w_cas"       \* while (!succ_block->cas_pred_id_weak(my_tail_int, 0))
     /\ XB(L.next_id).pred_id = me
     /\ XReturn(t, "Cancelled", XSet(xBlk, L.next_id, "pred_id", Zero32), Word, grants)
  \/ /\ pc[t] = "cnp_r_cas"       \* spin_until cas_pred_id_weak(my_tail_int, Acquired)
     /\ XB(L.next_id).pred_id = me
     /\ StepBlk(t, "cnp_r_inc", XSet(xBlk, L.next_id, "pred_id", kPredIdAcquired))
  \/ /\ pc[t] = "cnp_r_inc"
     /\ StepNreaders(t, "cnp_r_grant", IncrementNreaders(rwNreaders))
  \/ /\ pc[t] = "cnp_r_grant"
     /\ XReturn(t, "Cancelled", XSet(xBlk, L.next_id, "granted", TRUE), Word,
                Append(grants, L.next_id))

cancel_writer_lock_no_pred(t) ==
  LET L == loc[t]
      me == MyTail(t)
  IN
  \/ /\ pc[t] = "cnp_spin"
     /\ rwNextWriter # kNextWriterNone \/ MyX(t).granted
     /\ StepPc(t, "cnp_chk")
  \/ /\ pc[t] = "cnp_chk"
     /\ StepPc(t, IF MyX(t).granted THEN "cwl_wait" ELSE "cnp_cas_nw")
  \/ /\ pc[t] = "cnp_cas_nw"      \* lock->cas_next_writer_weak(my id, none)
     /\ IF rwNextWriter = t
        THEN StepNextWriter(t, "cnp_chk_next", kNextWriterNone)
        ELSE StepPc(t, "cwl_wait")
  \/ /\ pc[t] = "cnp_chk_next"
     /\ StepPc(t, IF MyX(t).next_id = Zero32 THEN "cnp_cas_tail" ELSE "cnp_spin_next")
  \/ /\ pc[t] = "cnp_cas_tail"    \* lock->cas_tail_weak(my_tail_int, 0)
     /\ IF rwTail = me
        THEN XReturn(t, "Cancelled", xBlk, <<Zero32, rwNextWriter, rwNreaders>>, grants)
        ELSE StepPc(t, "cnp_spin_next")
  \/ /\ pc[t] = "cnp_spin_next"
     /\ MyX(t).next_id # Zero32
     /\ StepPc(t, "cnp_read")
  \/ /\ pc[t] = "cnp_read"
     /\ StepLoc(t, IF XB(MyX(t).next_id).reader THEN "cnp_r_cas" ELSE "cnp_w_set_nw",
                [L EXCEPT !.next_id = MyX(t).next_id])
  \/ /\ pc[t] = "cnp_w_set_nw"    \* lock->set_next_writer(next_id >> 16)
     /\ StepNextWriter(t, "cnp_w_cas", TailThread(L.next_id))
  \/ /\ pc[t] = "cnp_w_cas"       \* while (!succ_block->cas_pred_id_weak(my_tail_int, 0))
     /\ XB(L.next_id).pred_id = me
     /\ XReturn(t, "Cancelled", XSet(xBlk, L.next_id, "pred_id", Zero32), Word, grants)
  \/ /\ pc[t] = "cnp_r_cas"       \* spin_until cas_pred_id_weak(my_tail_int, Acquired)
     /\ XB(L.next_id).pred_id = me
     /\ StepBlk(t, "cnp_r_inc", XSet(xBlk, L.next_id, "pred_id", kPredIdAcquired))
  \/ /\ pc[t] = "cnp_r_inc"
     /\ StepNreaders(t, "cnp_r_grant", IncrementNreaders(rwNreaders))
  \/ /\ pc[t] = "cnp_r_grant"
     /\ XReturn(t, "Cancelled", XSet(xBlk, L.next_id, "granted", TRUE), Word,
                Append(grants, L.next_id))

ExtBlockingCalls == {"acquire_unconditional_rw_reader", "acquire_unconditional_rw_writer"}
ExtTryCalls == {"acquire_try_rw_reader", "acquire_try_rw_writer"}
ExtAsyncCalls == {"acquire_async_rw_reader", "acquire_async_rw_writer",
                  "retry_async_rw_reader", "retry_async_rw_writer",
                  "cancel_async_rw_reader", "cancel_async_rw_writer"}

ExtAcquireNext(t) ==
  \/ acquire_unconditional_rw_reader(t) \/ acquire_unconditional_rw_writer(t)
  \/ acquire_async_rw_reader(t) \/ acquire_async_rw_writer(t)
  \/ acquire_reader_lock(t) \/ finish_acquire_reader_lock(t)
  \/ acquire_reader_lock_check_reader_pred(t) \/ acquire_reader_lock_check_writer_pred(t)
  \/ timeout_granted(t) \/ acquire_writer_lock(t)

ExtReleaseNext(t) ==
  \/ release_reader_lock(t) \/ finish_release_reader_lock(t) \/ release_writer_lock(t)

ExtTryNext(t) == acquire_try_rw_writer(t) \/ acquire_try_rw_reader(t)

\* the branches of acquire and release that meet a cancelling neighbour
ExtLeavingNext(t) ==
  \/ finish_acquire_reader_lock_leaving_granted(t)
  \/ acquire_reader_lock_check_reader_pred_leaving(t)
  \/ release_reader_lock_reader_successor(t)

ExtAsyncNext(t) ==
  \/ retry_async_rw_reader(t) \/ retry_async_rw_writer(t)
  \/ cancel_async_rw_reader(t) \/ cancel_async_rw_writer(t)
  \/ cancel_reader_lock(t) \/ cancel_unlink_pred(t)
  \/ cancel_reader_lock_with_writer_pred(t) \/ cancel_reader_lock_with_reader_pred(t)
  \/ cancel_reader_lock_relink(t) \/ cancel_writer_lock(t)
  \/ cancel_writer_lock_no_pred(t)

ExtThreadNext(t) ==
  \/ ExtAcquireNext(t) \/ ExtReleaseNext(t) \/ ExtTryNext(t)
  \/ ExtLeavingNext(t) \/ ExtAsyncNext(t)

NextExt == \E t \in Threads : ExtThreadNext(t)

\* two writers that acquire unconditionally and a writer that asks asynchronously and
\* cancels
ExtMiddleWorkload ==
  << {"acquire_unconditional_rw_writer"},
     {"acquire_async_rw_writer", "cancel_async_rw_writer"},
     {"acquire_unconditional_rw_writer"} >>

\* every thread acquires as a reader, unconditionally
ExtFanInWorkload == [t \in Threads |-> {"acquire_unconditional_rw_reader"}]

\* Smaller workloads, one chosen at the start: a thread makes unconditional acquires of
\* one class, try acquires of one class, or asynchronous acquires of one class that it
\* either retries or cancels.
ExtWorkloads ==
  { << {"acquire_unconditional_rw_writer"},
       {"acquire_async_rw_reader", "cancel_async_rw_reader"},
       {"acquire_async_rw_writer", "cancel_async_rw_writer"} >>,
    << {"acquire_unconditional_rw_reader"},
       {"acquire_try_rw_reader"},
       {"acquire_async_rw_writer", "cancel_async_rw_writer"} >>,
    << {"acquire_try_rw_writer"},
       {"acquire_async_rw_reader", "cancel_async_rw_reader"},
       {"acquire_async_rw_reader", "cancel_async_rw_reader"} >>,
    << {"acquire_try_rw_writer"},
       {"acquire_async_rw_reader", "retry_async_rw_reader"},
       {"acquire_async_rw_writer", "retry_async_rw_writer"} >>,
    ExtMiddleWorkload, ExtFanInWorkload }

InitExtMix ==
  /\ InitCommon /\ kind = "ext"
  /\ \E w \in ExtWorkloads :
       client = [t \in Threads |-> [max |-> MaxOpsExt,
                                    calls |-> IF t <= Len(w) THEN w[t] ELSE {}]]

SpecExtMix == InitExtMix /\ [][NextExt]_vars

\* a step of thread t inside a call: every step but the start of a call (an acquire, a
\* release by a holder, a retry or a cancel by an asynchronous requester)
ExtInCallNext(t) == pc[t] \notin {"idle", "held", "requested"} /\ ExtThreadNext(t)
\* Every thread that is inside a call keeps taking steps while it can (native threads
\* that spin); no holder is obliged to release and no requester to cancel or retry.
FairSpecExtMix ==
  /\ SpecExtMix
  /\ \A t \in Threads : WF_vars(ExtInCallNext(t))

\* A thread that holds LockRequested from an asynchronous acquire goes on to another
\* lock: init_block of that acquire issues the thread's next block and initialises it.
\* The other lock itself is not part of the state.
init_block_other_lock(t) ==
  /\ kind = "ext" /\ pc[t] = "requested"
  /\ curBlock[t] < MaxOpsExt + MaxOtherBlocks
  /\ curBlock[t] + 1 \in Blocks
  /\ \E writer \in BOOLEAN :
       xBlk' = [xBlk EXCEPT ![t][curBlock[t] + 1] =
                  IF writer THEN ExtInitWriter ELSE ExtInitReader]
  /\ curBlock' = [curBlock EXCEPT ![t] = @ + 1]
  /\ UNCHANGED <<pc, loc, ops, ret, rwWord, hist, cancels, midCancels>>
  /\ UNCHANGED notExt

NextExtOtherLock == NextExt \/ \E t \in Threads : init_block_other_lock(t)

SpecExtOtherLock == InitExtMix /\ [][NextExtOtherLock]_vars

\* A workload in which one thread comes back to the lock: the last thread makes up to
\* MaxOpsExtReuse unconditional writer acquires, the others read once.  Nobody cancels,
\* so the steps of ExtLeavingNext are never enabled.
InitExtReuse ==
  /\ InitCommon /\ kind = "ext"
  /\ client = [t \in Threads |->
                 IF t < NThreads
                 THEN [max |-> 1, calls |-> {"acquire_unconditional_rw_reader"}]
                 ELSE [max |-> MaxOpsExtReuse,
                       calls |-> {"acquire_unconditional_rw_writer"}]]

NextExtReuse == \E t \in Threads : ExtAcquireNext(t) \/ ExtReleaseNext(t)

SpecExtReuse == InitExtReuse /\ [][NextExtReuse]_vars

\* ---------------------------------------------------------------- WW claims
\* the threads inside the critical section: acquire has obtained the lock (the exchange
\* returned 0, or the waiting flag was seen cleared) and release has not yet passed it on
WwHolders == {t \in Threads : pc[t] \in {"ww_got", "held", "ww_rel_cas"}}
WwGuestHolders == {g \in Guests : gpc[g] \in {"held", "releasing"}}

\* C1: at most one participant (thread or guest) holds the WW lock at any instant
C1_WwMutualExclusion == Cardinality(WwHolders) + Cardinality(WwGuestHolders) <= 1
\* a waiter has exchanged its tail over GuestId, put GuestId back and now holds the
\* lock after re-exchanging a group tail that names another thread's block
C1_Witness ==
  \E t \in Threads : /\ pc[t] = "ww_got"
                      /\ loc[t].group_tail # MyTail(t)
                      /\ TailThread(loc[t].group_tail) # t
                      /\ wwLock = loc[t].group_tail
                      /\ gops[1] > 0

WwInAcquire(t) == pc[t] \in {"ww_check_guest", "ww_xchg", "ww_got", "ww_putback", "ww_link", "ww_wait"}
WwInRelease(t) == pc[t] \in {"ww_rel_cas", "ww_rel_spin", "ww_rel_wake"}

\* C6: every call on the WW lock eventually returns: an acquirer ends up holding, a
\* releaser ends up idle, for threads and for guests
C6_WwProgress ==
  /\ \A t \in Threads : (WwInAcquire(t) ~> pc[t] = "held")
  /\ \A t \in Threads : (WwInRelease(t) ~> pc[t] = "idle")
  /\ \A g \in Guests : (gpc[g] = "acquiring" ~> gpc[g] = "held")
  /\ \A g \in Guests : (gpc[g] = "releasing" ~> gpc[g] = "idle")
\* ------------------------------------------------------------ Simple claims
\* a reader holds from the moment its block is granted until it calls release_rw_reader
SimpleReaderHolders ==
  {t \in Threads : /\ loc[t].role = "R"
                   /\ pc[t] \in {"sf_begin", "sf_spin", "sf_inc", "sf_unblock", "sf_final",
                                 "held"}}
\* a writer holds from the return of its acquire until it calls release_rw_writer
SimpleWriterHolders == {t \in Threads : loc[t].role = "W" /\ pc[t] = "held"}

\* C4: on the simple RW lock no thread holds the lock as granted writer while another
\* holds it as granted reader, and no two threads hold it as writers
C4_SimpleRwExclusion ==
  /\ Cardinality(SimpleWriterHolders) <= 1
  /\ SimpleWriterHolders # {} => SimpleReaderHolders = {}

\* ---------------------------------------------------------- Extended claims
\* the threads between the return of a successful acquire and the call of release
ExtWriterHolders == {t \in Threads : kind = "ext" /\ loc[t].role = "W" /\ pc[t] = "held"}
ExtReaderHolders == {t \in Threads : kind = "ext" /\ loc[t].role = "R" /\ pc[t] = "held"}

\* C2: on the extended RW lock at most one thread holds the lock as writer at any instant
C2_ExtWriterMutualExclusion == Cardinality(ExtWriterHolders) <= 1

\* a writer holds the lock while the asynchronous request of another writer is queued
C2_Witness ==
  \E t \in ExtWriterHolders :
    \E u \in Threads \ {t} : loc[u].role = "W" /\ pc[u] = "requested"

TailWords == {ToTailInt(t, b) : t \in Threads, b \in Blocks}
InSeq(seq, x) == \E i \in 1..Len(seq) : seq[i] = x
FirstPos(seq, x) == CHOOSE i \in 1..Len(seq) : seq[i] = x /\ \A j \in 1..(i - 1) : seq[j] # x

\* the blocks that went through the tail exchange
ExtEnqueued(t, b) ==
  /\ kind = "ext"
  /\ \E i \in 1..Len(enq) : enq[i] = ToTailInt(t, b)
ExtGranted(t, b) == xBlk[t][b].granted

\* the blocks that wait: through the tail exchange, not granted, not cancelled by their owner
ExtWaiting(t, b) ==
  ExtEnqueued(t, b) /\ ~ExtGranted(t, b) /\ ToTailInt(t, b) \notin cancels

\* C5: no lost wakeup on the extended RW lock: a block that waits is never stranded, some
\* thread can always take a step while it waits (a stranded block is never granted,
\* however the threads are scheduled)
C5_ExtNoLostWakeup ==
  (\E t \in Threads : \E b \in 1..MaxOpsExt : ExtWaiting(t, b)) => ENABLED NextExt

\* C3: on the extended RW lock a writer holds the lock only while nreaders is 0, and
\* no reader holds the lock while a writer holds it
C3_ExtReaderWriterExclusion ==
  ExtWriterHolders # {} => (rwNreaders = 0 /\ ExtReaderHolders = {})

\* ---- the queue of the extended lock, looked at while no thread is inside a call
\* every thread is between calls, or spins in an unconditional acquire
ExtAtRest == kind = "ext" /\ \A t \in Threads : pc[t] \in {"idle", "held", "requested", "tg"}
\* some cancel was called, and every call that was made has returned
ExtCancelsCompleted == ExtAtRest /\ cancels # {}
\* the owner of block y is still working with it
ExtOnBlock(y) == loc[TailThread(y)].block_index = TailBlock(y) /\ pc[TailThread(y)] # "idle"
\* the enqueued blocks that are neither granted nor cancelled
ExtWaiters == {y \in TailWords : InSeq(enq, y) /\ ~XB(y).granted /\ y \notin cancels}
\* the granted blocks that are not yet released
ExtHolders == {y \in TailWords : InSeq(enq, y) /\ XB(y).granted /\ ExtOnBlock(y)}
\* where the queue starts: the holders, and the writer registered in next_writer
ExtQueueHeads ==
  ExtHolders \cup (IF rwNextWriter # kNextWriterNone
                   THEN {ToTailInt(rwNextWriter, curBlock[rwNextWriter])} ELSE {})
ExtNextOf(S) == {XB(y).next_id : y \in S} \cap TailWords
RECURSIVE ExtFollow(_, _)
ExtFollow(S, n) == IF n = 0 THEN S ELSE ExtFollow(S \cup ExtNextOf(S), n - 1)
\* the blocks linked from the queue head through next_id
ExtLinked == ExtFollow(ExtQueueHeads, Cardinality(TailWords))
\* the waiters that no waiter names as its successor's predecessor: the end of the queue
ExtLastWaiters == {y \in ExtWaiters : XB(y).next_id \notin ExtWaiters}
ExtLinkedAreWaiters == (ExtLinked \ ExtHolders) = ExtWaiters
ExtTailIsLastWaiter == ExtWaiters # {} => ExtLastWaiters = {rwTail}

\* C8 as stated: once the cancels have completed, the blocks linked from the queue head
\* are exactly the waiters, tail names the last waiter, and tail names a holder when
\* no block waits
C8_QueueIntegrityTailOnHolder ==
  ExtCancelsCompleted =>
    /\ ExtLinkedAreWaiters
    /\ ExtTailIsLastWaiter
    /\ (ExtWaiters = {} /\ ExtHolders # {}) => rwTail \in ExtHolders

\* C8, amended: once the cancels have completed, the blocks linked from the queue head
\* are exactly the waiters and tail names the last waiter; when no block waits, tail
\* is 0 or names a holder
C8_QueueIntegrity ==
  ExtCancelsCompleted =>
    /\ ExtLinkedAreWaiters
    /\ ExtTailIsLastWaiter
    /\ ExtWaiters = {} => (rwTail = Zero32 \/ rwTail \in ExtHolders)

\* a cancelled block was spliced out in front of a block that still waits
C8_Witness ==
  /\ ExtAtRest
  /\ \E x \in cancels : ~InSeq(grants, x) /\ XB(x).next_id \in ExtWaiters

\* ---- a block after its cancel_async_rw_* call has returned
ExtCancelReturned ==
  {x \in cancels : kind = "ext" /\ (curBlock[TailThread(x)] > TailBlock(x) \/ pc[TailThread(x)] = "idle")}
\* the labels inside release_reader_lock and release_writer_lock
ExtReleaseLabels ==
  {"rrl_begin", "rrl_read", "rrl_cas", "rrl_spin", "rrl_succ", "rrl_r_cas", "rrl_r_inc",
   "rrl_r_grant", "rrl_w_cas", "rrl_w_set_nw", "frrl_cur", "frrl_chk", "frrl_cas",
   "frrl_dec", "frrl_load", "frrl_wcas", "frrl_grant", "rwl_begin", "rwl_read", "rwl_cas",
   "rwl_spin", "rwl_pcas", "rwl_class", "rwl_inc", "rwl_grant"}
\* the blocks whose owner waits for the lock or holds it, and has not called release
ExtInQueue(y) ==
  /\ InSeq(enq, y) /\ ExtOnBlock(y)
  /\ pc[TailThread(y)] \notin ExtReleaseLabels
\* the readers that have been enqueued and whose owner has not returned from the release
\* or the cancel
ExtReadersInFlight == {y \in TailWords : InSeq(enq, y) /\ XB(y).reader /\ ExtOnBlock(y)}
\* the lock word and the pred_id of every block do not name x
ExtUnnamed(x) ==
  /\ rwTail # x
  /\ rwNextWriter = TailThread(x) => curBlock[TailThread(x)] > TailBlock(x)
  /\ \A y \in TailWords : XB(y).pred_id # x
\* the result of the cancel: released when the block had been granted, else LockCancelled
ExtCancelResult(x) ==
  (curBlock[TailThread(x)] = TailBlock(x) /\ pc[TailThread(x)] = "idle")
    => ret[TailThread(x)] = (IF InSeq(grants, x) THEN "CancelReleased" ELSE "Cancelled")

\* C10 as stated: after cancel_async_rw_* has returned, no tail, next_writer or pred_id
\* names the block, and no next_id of a block that waits for the lock or holds it
C10_CancelledBlockUnreferenced ==
  \A x \in ExtCancelReturned :
    /\ ExtUnnamed(x)
    /\ \A y \in TailWords : ExtInQueue(y) => XB(y).next_id # x

\* C10, amended: after cancel_async_rw_* has returned, no tail, next_writer or pred_id
\* names the block, and no next_id of a block that still waits (of a block that waits or
\* holds, when the block was spliced out); the call returned LockCancelled unless the
\* block had been granted, and nreaders counts no reader whose owner has returned
C10_CancelledBlockUnlinked ==
  /\ \A x \in ExtCancelReturned :
       /\ ExtUnnamed(x)
       /\ \A y \in TailWords :
            (InSeq(enq, y) /\ ~XB(y).granted /\ ExtOnBlock(y)) => XB(y).next_id # x
       /\ ~InSeq(grants, x) => \A y \in TailWords : ExtInQueue(y) => XB(y).next_id # x
       /\ ExtCancelResult(x)
  /\ kind = "ext" => rwNreaders <= Cardinality(ExtReadersInFlight)

\* a cancel returned LockCancelled for a block that had a successor, which still waits
C10_Witness ==
  \E x \in ExtCancelReturned :
    /\ ret[TailThread(x)] = "Cancelled"
    /\ XB(x).next_id \in ExtWaiters

\* no thread and no guest is inside a call or holds or waits: every acquire was matched
AllReturned == (\A t \in Threads : pc[t] = "idle") /\ (\A g \in Guests : gpc[g] = "idle")

\* ---- grant against cancel
\* the owner of x has returned from the call on x and made no call since
ExtLastCall(x) == curBlock[TailThread(x)] = TailBlock(x) /\ pc[TailThread(x)] = "idle"
\* the threads whose cancel read PredIdAcquired with xchg(pred_id, 0) and accept the lock
ExtCancelAccepting ==
  {t \in Threads : /\ kind = "ext" /\ pc[t] \in {"crl_wait", "cwl_wait"}
                   /\ loc[t].pred = kPredIdAcquired}

\* C11: grant and cancel exclude each other per block: a cancel that read PredIdAcquired
\* is not reported LockCancelled but released; a block whose cancel returned
\* LockCancelled was never granted, is not granted afterwards and is not counted in
\* nreaders; once all calls have returned the lock word is empty
C11_GrantXorCancel ==
  /\ \A t \in ExtCancelAccepting : MyTail(t) \in cancels /\ MyX(t).pred_id = Zero32
  /\ \A t \in Threads :
       (kind = "ext" /\ loc[t].api = "cancel" /\ pc[t] \in ExtReleaseLabels)
         => InSeq(grants, MyTail(t))
  /\ \A x \in ExtCancelReturned :
       /\ ~InSeq(grants, x) <=> ~XB(x).granted
       /\ ExtLastCall(x) =>
            /\ ret[TailThread(x)] = "Cancelled" <=> ~InSeq(grants, x)
            /\ ret[TailThread(x)] = "CancelReleased" <=> InSeq(grants, x)
  /\ kind = "ext" => rwNreaders <= Cardinality(ExtReadersInFlight \ ExtCancelReturned)
  /\ (kind = "ext" /\ AllReturned /\ cancels # {})
       => (rwTail = Zero32 /\ rwNextWriter = kNextWriterNone /\ rwNreaders = 0)

\* a cancel read PredIdAcquired and waits for the grant it has to accept
C11_Witness ==
  \E t \in ExtCancelAccepting : loc[t].role = "W" /\ ~MyX(t).granted

\* ---- a writer cancelled in the middle of the queue
ExtMiddleRun == kind = "ext" /\ \A t \in Threads : client[t].calls = ExtMiddleWorkload[t]
\* the threads other than t are between calls and will make no further call
ExtOthersDone(t) == \A u \in Threads \ {t} : pc[u] = "idle" /\ (ops[u] = client[u].max \/ ops[u] = 0)
\* the waiters are linked: the predecessor a waiter names is a live block that names it
ExtWaitersLinked ==
  \A y \in ExtWaiters :
    XB(y).pred_id \in TailWords =>
      /\ XB(y).pred_id \in ExtWaiters \cup ExtHolders
      /\ XB(XB(y).pred_id).next_id = y
ExtMiddleLeft(x) ==
  /\ ExtUnnamed(x)
  /\ ExtAtRest => ExtWaitersLinked
  /\ \A t \in Threads :
       (ExtOthersDone(t) /\ pc[t] = "tg") => MyX(t).granted
  /\ \A t \in Threads :
       (ExtOthersDone(t) /\ pc[t] = "held") => rwTail = MyTail(t)

\* C12 as stated: a writer that waited between a holding writer and a waiting writer when
\* it called cancel_async_rw_writer leaves with LockCancelled; its successor is linked
\* behind the holder and, once the others are done, is granted with tail naming it
C12_MiddleWriterCancelled ==
  \A x \in midCancels \cap ExtCancelReturned :
    ExtMiddleRun =>
      /\ ExtLastCall(x) => ret[TailThread(x)] = "Cancelled"
      /\ ExtMiddleLeft(x)

\* C12, amended: such a writer leaves with LockCancelled, or released when the release of
\* the holder granted it during the cancel; its successor is linked behind the holder
\* and, once the others are done, is granted with tail naming it
C12_MiddleWriterLeaves ==
  \A x \in midCancels \cap ExtCancelReturned :
    ExtMiddleRun =>
      /\ ExtLastCall(x) =>
           ret[TailThread(x)] = (IF InSeq(grants, x) THEN "CancelReleased" ELSE "Cancelled")
      /\ ExtMiddleLeft(x)

\* the middle writer has left with LockCancelled, the holder still holds and the
\* successor waits directly behind it
C12_Witness ==
  \E x \in midCancels \cap ExtCancelReturned :
    /\ ExtMiddleRun /\ ExtAtRest /\ ret[TailThread(x)] = "Cancelled"
    /\ \E h \in ExtHolders : \E w \in ExtWaiters : XB(h).next_id = w /\ XB(w).pred_id = h

\* ------------------------------------------------------- try acquires
\* a writer holds the RW lock: its acquire has returned and it has not called release
WriterHolds ==
  \E w \in Threads : kind \in {"simple", "ext"} /\ pc[w] = "held" /\ loc[w].role = "W"
\* how far a call of acquire_try_rw_reader has come: it has to load the lock word, may
\* have to look at the tail block, and makes one compare-exchange
TryReaderStage(label) ==
  CASE label \in {"tr_load", "xtr_load"} -> 1
    [] label \in {"tr_peek", "xtr_peek"} -> 2
    [] label \in {"tr_cas", "xtr_cas"} -> 3
    [] OTHER -> 0
InTryReader(t) == TryReaderStage(pc[t]) > 0
\* the step of t ends its try call with the result 0
TryFails(t) == pc'[t] = "idle" /\ ret'[t] = "TryFail"

\* C13: a step that acquire_try_rw_reader takes while a writer holds the lock (simple or
\* extended) leaves the lock word as it is, and either is the return of 0 or brings the
\* call nearer to it: having seen the lock taken, the call does not start over
C13_TryReaderFailsAgainstWriter ==
  [][\A t \in Threads :
       (WriterHolds /\ InTryReader(t) /\ pc'[t] # pc[t]) =>
         /\ Word' = Word
         /\ TryFails(t) \/ TryReaderStage(pc'[t]) > TryReaderStage(pc[t])]_vars

\* how far a call of acquire_try_rw_reader or acquire_try_rw_writer has come, up to the
\* point where it has the lock (a reader then goes on to finish_acquire_reader_lock)
TryStage(label) ==
  CASE label \in {"tr_load", "xtr_load"} -> 1
    [] label \in {"tr_peek", "xtr_peek"} -> 2
    [] label \in {"tr_cas", "xtr_cas", "tw_cas", "xtw_cas"} -> 3
    [] label \in {"tr_link", "xtr_set_next"} -> 4
    [] label \in {"tr_unblock", "xtr_grant"} -> 5
    [] OTHER -> 0
InTry(t) == TryStage(pc[t]) > 0

\* the weak compare-exchange of a try call fails although the lock word is the expected
\* one; the caller may make it again
TrySpuriousFailure(t) ==
  /\ pc[t] \in {"tr_cas", "xtr_cas"} /\ Word = loc[t].lock_word /\ Word' = Word

\* C14: the try acquires are one-shot.  Every step of a try call (reader or writer, simple
\* or extended) either leaves the try code or takes the call to a later stage of it,
\* unless it is a compare-exchange that failed spuriously; so the call ends after a
\* bounded number of its own steps whatever the other threads do, also while a writer
\* holds the lock.  The step that returns 0 leaves the caller's block off the queue: it
\* was never made the tail
C14_TryOneShot ==
  [][\A t \in Threads :
       (InTry(t) /\ pc'[t] # pc[t]) =>
         /\ \/ TryStage(pc'[t]) = 0 \/ TryStage(pc'[t]) > TryStage(pc[t])
            \/ TrySpuriousFailure(t)
         /\ TryFails(t) => ~InSeq(enq', MyTail(t)) /\ rwTail' # MyTail(t)]_vars

InTryWriterCas(t) == pc[t] \in {"tw_cas", "xtw_cas"}
EmptyWord == <<Zero32, kNextWriterNone, 0>>

\* C15: the compare-exchange of acquire_try_rw_writer (simple and extended) succeeds only
\* on the lock word {tail 0, next_writer none, nreaders 0} and turns it into {tail of the
\* caller, none, 0}; on any other word, in particular one with tail 0 that still counts
\* readers, the call returns 0 and the word stays as it is
C15_TryWriterWholeWord ==
  [][\A t \in Threads :
       (InTryWriterCas(t) /\ pc'[t] # pc[t]) =>
         /\ pc'[t] = "held" \/ TryFails(t)
         /\ pc'[t] = "held" =>
              /\ Word = EmptyWord
              /\ Word' = <<MyTail(t), kNextWriterNone, 0>>
              /\ ret'[t] = "Ok"
         /\ TryFails(t) => Word' = Word
         /\ Word # EmptyWord => TryFails(t)]_vars
\* a try writer holds a lock that readers held and released before: the word is its tail
\* alone
C15_Witness ==
  \E t \in Threads :
    /\ kind = "ext" /\ client[t].calls = {"acquire_try_rw_writer"}
    /\ pc[t] = "held" /\ ret[t] = "Ok"
    /\ Word = <<MyTail(t), kNextWriterNone, 0>>
    /\ \E y \in TailWords : InSeq(grants, y) /\ XB(y).reader /\ FirstPos(grants, y) < FirstPos(grants, MyTail(t))

\* the compare-exchange of acquire_try_rw_reader succeeds in this step (the step before
\* it initialised the block of t, which the step then names as the tail)
TryReaderCasSucceeds(t) ==
  /\ pc[t] \in {"tr_cas", "xtr_cas"}
  /\ pc'[t] \in {"tr_link", "tr_unblock", "xtr_set_next", "xtr_grant"}
\* the block that the tail names is a reader that has been granted
TailIsGrantedReader ==
  /\ rwTail # Zero32
  /\ IF kind = "simple" THEN ~SBlock(rwTail).blocked /\ SBlock(rwTail).class = "reader"
     ELSE XB(rwTail).granted /\ XB(rwTail).reader
\* the labels inside the release of a writer
WriterReleaseLabels ==
  {"rw_cas", "rw_spin", "rw_is_reader", "rw_inc", "rw_unblock"} \cup ExtReleaseLabels
\* a writer went through the tail exchange (or installed its tail by compare-exchange) and
\* has neither called release nor cancel: it waits for the lock or holds it
WriterHoldsOrWaits ==
  \E w \in Threads :
    /\ kind \in {"simple", "ext"} /\ loc[w].role = "W" /\ loc[w].api # "cancel"
    /\ InSeq(enq, MyTail(w)) /\ pc[w] \notin WriterReleaseLabels
\* the block that was the tail before t was told that it has no successor to wake
FormerTailTold(t) ==
  LET p == loc[t].lock_word[1]
  IN IF kind = "simple"
     THEN /\ SuccessorTail(sBlk'[TailThread(p)][TailBlock(p)]) = MyTail(t)
          /\ sBlk'[TailThread(p)][TailBlock(p)].successor_class = "none"
     ELSE xBlk'[TailThread(p)][TailBlock(p)].next_id = kSuccIdNoSuccessor

\* C16: the compare-exchange of acquire_try_rw_reader (simple and extended) succeeds only
\* on a lock word with next_writer none whose tail is empty or names a granted reader
\* block, and never while a writer holds or waits; it makes the caller the tail and
\* counts one reader more; the steps that follow tell the former tail reader that it has
\* no successor to wake and grant the caller
C16_TryReaderJoinsReaders ==
  [][\A t \in Threads :
       /\ TryReaderCasSucceeds(t) =>
            /\ rwNextWriter = kNextWriterNone
            /\ rwTail = Zero32 \/ TailIsGrantedReader
            /\ ~WriterHoldsOrWaits
            /\ Word' = <<MyTail(t), kNextWriterNone, rwNreaders + 1>>
       /\ (pc[t] \in {"tr_link", "xtr_set_next"} /\ pc'[t] # pc[t]) =>
            /\ FormerTailTold(t) /\ Word' = Word
            /\ pc'[t] \in {"tr_unblock", "xtr_grant"}
       /\ (pc[t] \in {"tr_unblock", "xtr_grant"} /\ pc'[t] # pc[t]) =>
            /\ IF kind = "simple" THEN ~sBlk'[t][loc[t].block_index].blocked
               ELSE xBlk'[t][loc[t].block_index].granted
            /\ Word' = Word]_vars
\* a try reader joined behind a granted reader: it is the tail, two readers are counted
\* and the former tail has been told
C16_Witness ==
  \E t \in Threads :
    /\ kind = "ext" /\ pc[t] = "xtr_grant" /\ loc[t].lock_word[1] # Zero32
    /\ rwTail = MyTail(t) /\ rwNreaders = 2
    /\ XB(loc[t].lock_word[1]).next_id = kSuccIdNoSuccessor

\* ------------------------------------------------------- asynchronous acquires
AsyncAcquireCalls == {"acquire_async_rw_reader", "acquire_async_rw_writer"}
\* t is inside acquire_async_rw_reader or acquire_async_rw_writer
InAcquireAsync(t) ==
  /\ kind = "ext" /\ loc[t].api = "acquire" /\ client[t].calls \cap AsyncAcquireCalls # {}
  /\ pc[t] \notin {"idle", "held", "requested"}
\* every thread but t is outside the lock code: it holds, has a request pending or is idle
OthersAtRest(t) == \A u \in Threads \ {t} : pc[u] \in {"idle", "held", "requested"}
\* both flags of the block of t say granted after the step
BothFlagsGranted(t) ==
  /\ xBlk'[t][loc[t].block_index].granted
  /\ xBlk'[t][loc[t].block_index].state \in {2, 3}
\* no thread holds the lock in a mode that conflicts with the mode of t
NoConflictingHolder(t) ==
  \A u \in Threads \ {t} :
    pc[u] = "held" => (loc[t].role = "R" /\ loc[u].role = "R")
\* the block of t stays in the queue after the step: it went through the tail exchange,
\* nobody has granted it and no cancel has taken it out
StaysEnqueued(t) ==
  LET me == MyTail(t)
  IN /\ InSeq(enq', me) /\ me \notin cancels'
     /\ ~xBlk'[t][loc[t].block_index].granted /\ ~InSeq(grants', me)
     /\ xBlk'[t][loc[t].block_index].state = 0

\* C17: acquire_async_rw_reader and acquire_async_rw_writer of the extended lock return
\* either granted = true, and then the caller holds the lock with both flags of its block
\* granted and no conflicting holder, or LockRequested with the block left in the queue
\* and not granted; they never return LockCancelled.  With every other thread at rest,
\* holding the lock or with a pending request, the call can always take its next step: it
\* has no wait that only a release would end
C17_AsyncAcquireReturns ==
  /\ [](\A t \in Threads : (InAcquireAsync(t) /\ OthersAtRest(t)) => ENABLED ExtThreadNext(t))
  /\ [][\A t \in Threads :
          (InAcquireAsync(t) /\ pc'[t] \in {"idle", "held", "requested"}) =>
            /\ ret'[t] \in {"Ok", "Requested"}
            /\ ret'[t] = "Ok" =>
                 /\ pc'[t] = "held" /\ BothFlagsGranted(t) /\ NoConflictingHolder(t)
            /\ ret'[t] = "Requested" =>
                 /\ pc'[t] = "requested" /\ StaysEnqueued(t)]_vars
\* an asynchronous writer has returned LockRequested behind a reader that holds the lock
\* and has taken no step since
C17_Witness ==
  \E t \in Threads : \E u \in Threads \ {t} :
    /\ kind = "ext" /\ pc[t] = "requested" /\ ret[t] = "Requested" /\ loc[t].role = "W"
    /\ pc[u] = "held" /\ loc[u].role = "R"
    /\ ~MyX(t).granted /\ InSeq(enq, MyTail(t))

\* t is inside a call of retry_async_rw_* that found the pred flag granted
InRetry(t) == kind = "ext" /\ loc[t].api = "retry"
\* the step is the call of retry_async_rw_* by t that returns false
RetryFails(t) == pc[t] = "requested" /\ ret'[t] = "RetryFail" /\ ret[t] # "RetryFail"

\* C18: retry_async_rw_reader and retry_async_rw_writer on a block that got LockRequested
\* go on to take the lock only when the pred flag of the block is granted and return
\* false only when it is not; a retry that returns false changes neither the lock word
\* nor any block; a retry that returns true returns with both flags of the block granted,
\* no conflicting holder and, for a reader, finish_acquire_reader_lock done (the block is
\* no longer busy); with every other thread at rest a retry can always take its next step
C18_RetryAsync ==
  /\ [](\A t \in Threads : (InRetry(t) /\ OthersAtRest(t)) => ENABLED ExtThreadNext(t))
  /\ [][\A t \in Threads :
          /\ (kind = "ext" /\ pc[t] = "requested" /\ loc'[t].api = "retry") => MyX(t).granted
          /\ RetryFails(t) =>
               /\ ~MyX(t).granted
               /\ Word' = Word /\ xBlk' = xBlk /\ pc' = pc /\ enq' = enq
          /\ (InRetry(t) /\ pc'[t] \in {"idle", "held", "requested"}) =>
               /\ ret'[t] = "Ok" /\ pc'[t] = "held"
               /\ BothFlagsGranted(t) /\ NoConflictingHolder(t)
               /\ loc[t].role = "R" => ~xBlk'[t][loc[t].block_index].busy]_vars
\* a reader's retry found its block granted and is at the end of
\* finish_acquire_reader_lock, while the retry of a writer behind it has returned false
C18_Witness ==
  \E t \in Threads : \E u \in Threads \ {t} :
    /\ InRetry(t) /\ loc[t].role = "R" /\ pc[t] = "farl_unbusy"
    /\ pc[u] = "requested" /\ ret[u] = "RetryFail" /\ ~MyX(u).granted

\* ------------------------------------------------------- unconditional acquires
UnconditionalCalls == {"acquire_unconditional_rw_reader", "acquire_unconditional_rw_writer"}
\* t is inside acquire_unconditional_rw_reader or acquire_unconditional_rw_writer of the
\* extended lock
InAcquireUnconditional(t) ==
  /\ kind = "ext" /\ loc[t].api = "acquire" /\ client[t].calls \cap UnconditionalCalls # {}
  /\ pc[t] \notin {"idle", "held", "requested"}

\* C19: acquire_unconditional_rw_reader and acquire_unconditional_rw_writer of the
\* extended lock return only LockGranted, never LockCancelled or LockRequested, and at
\* the return both flags of the caller's block are granted and no thread holds the lock
\* in a conflicting mode, also when blocks ahead of the caller cancelled
C19_UnconditionalReturnsGranted ==
  [][\A t \in Threads :
       (InAcquireUnconditional(t) /\ pc'[t] \in {"idle", "held", "requested"}) =>
         /\ ret'[t] = "Ok" /\ pc'[t] = "held"
         /\ BothFlagsGranted(t) /\ NoConflictingHolder(t)
         /\ InSeq(grants', MyTail(t))]_vars
\* an unconditional acquire has returned although a block that was enqueued ahead of it
\* cancelled without ever being granted
C19_Witness ==
  \E t \in Threads :
    /\ kind = "ext" /\ client[t].calls \cap UnconditionalCalls # {}
    /\ pc[t] = "held" /\ ret[t] = "Ok"
    /\ \E x \in cancels :
         /\ ~InSeq(grants, x) /\ ret[TailThread(x)] = "Cancelled"
         /\ FirstPos(enq, x) < FirstPos(enq, MyTail(t))
         /\ \E h \in TailWords : InSeq(enq, h) /\ FirstPos(enq, h) < FirstPos(enq, x)

\* ------------------------------------------------------- reader fan-in
\* the threads that have called the lock
Callers == {t \in Threads : ops[t] > 0}
\* only unconditional readers have come to the extended lock, each of them once, and none
\* has called release
FanIn ==
  /\ kind = "ext" /\ Callers # {}
  /\ \A t \in Callers :
       /\ client[t].calls = {"acquire_unconditional_rw_reader"}
       /\ ops[t] = 1 /\ pc[t] \notin ExtReleaseLabels \cup {"idle"}
\* a step of a reader that is inside its acquire
FanInStep == \E t \in Threads : pc[t] \notin {"idle", "held"} /\ ExtThreadNext(t)

\* C20: when only unconditional readers have come to an empty extended lock and none has
\* released, a reader inside its acquire can always go on, so that all are granted
\* without any release; no more readers are counted than have come; and once all of them
\* have returned, nreaders is their number, every one of their blocks has the pred flag
\* granted, no writer is announced and the tail names the block of the last tail exchange
C20_ReaderFanIn ==
  FanIn =>
    /\ (\E t \in Callers : pc[t] # "held") => ENABLED FanInStep
    /\ rwNreaders <= Cardinality(Callers) /\ rwNextWriter = kNextWriterNone
    /\ (\A t \in Callers : pc[t] = "held") =>
         /\ rwNreaders = Cardinality(Callers)
         /\ \A t \in Callers : MyX(t).granted /\ MyX(t).state \in {2, 3} /\ ret[t] = "Ok"
         /\ Len(enq) = Cardinality(Callers) /\ rwTail = enq[Len(enq)]
\* every thread holds the lock as a reader
C20_Witness ==
  /\ FanIn /\ Callers = Threads /\ \A t \in Threads : pc[t] = "held"
  /\ rwNreaders = NThreads

\* ------------------------------------------------------- writers and readers
\* the threads that hold an RW lock as readers: acquire has returned, release not called
RwReaderHolders ==
  {t \in Threads : kind \in {"simple", "ext"} /\ pc[t] = "held" /\ loc[t].role = "R"}
\* the writers whose block has been granted and that have not called release
RwGrantedWriters ==
  {t \in Threads : /\ kind \in {"simple", "ext"} /\ loc[t].role = "W"
                   /\ InSeq(grants, MyTail(t))
                   /\ pc[t] \notin WriterReleaseLabels \cup {"idle"}}
\* t is inside acquire_unconditional_rw_writer and went through the tail exchange
RwWriterWaits(t) ==
  /\ kind \in {"simple", "ext"} /\ loc[t].role = "W" /\ InSeq(enq, MyTail(t))
  /\ "acquire_unconditional_rw_writer" \in client[t].calls
  /\ pc[t] \notin WriterReleaseLabels \cup {"idle", "held", "requested"}
\* a step of thread t on an RW lock
RwThreadNext(t) == SimpleUnconditionalNext(t) \/ ExtThreadNext(t)
OthersIdle(t) == \A u \in Threads \ {t} : pc[u] = "idle"

\* C21: a writer of an RW lock (simple and extended) is not granted while a reader holds
\* the lock; when the readers have released and every other thread has returned, a
\* writer inside acquire_unconditional_rw_writer is not left waiting (nobody cancelled),
\* and when it holds, nreaders is 0, next_writer is none and the tail is its block
C21_WriterWaitsForReaders ==
  /\ RwGrantedWriters # {} => RwReaderHolders = {}
  /\ \A w \in Threads :
       /\ (RwWriterWaits(w) /\ OthersIdle(w) /\ cancels = {}) => ENABLED RwThreadNext(w)
       /\ (w \in RwGrantedWriters /\ pc[w] = "held" /\ OthersIdle(w)) =>
            /\ rwNreaders = 0 /\ rwNextWriter = kNextWriterNone
            /\ rwTail = MyTail(w)
\* ---------------------------------------------------------------- WW release
\* the waiters that exchanged their tail in directly behind the block t holds
WwDirectSuccessors(t) ==
  {u \in Threads \ {t} : pc[u] \in {"ww_link", "ww_wait"} /\ loc[u].pred = MyTail(t)}
\* the threads that are in the critical section or enter it with their next step
WwEntrants ==
  WwHolders \cup {u \in Threads : pc[u] = "ww_wait" /\ ~meWaiting[u]}
WwReleaseReturns(t) ==
  /\ kind = "ww" /\ (pc[t] = "held" \/ WwInRelease(t)) /\ pc'[t] = "idle"

\* C22: release by the holder stores 0 in the lock when no waiter exchanged its tail in
\* behind the holder; otherwise it leaves the lock non-zero and clears the waiting flag
\* of the holder's direct successor and no other flag, so that this successor and nobody
\* else is about to enter; a release whose CAS failed does not return before that
C22_WwRelease ==
  /\ [](kind = "ww" => Cardinality(WwEntrants) + Cardinality(WwGuestHolders) <= 1)
  /\ [][\A t \in Threads :
         WwReleaseReturns(t) =>
           IF WwDirectSuccessors(t) = {}
             THEN wwLock' = Zero32 /\ meWaiting' = meWaiting
             ELSE /\ wwLock' = wwLock /\ wwLock' \notin {Zero32, kMcsGuestId}
                  /\ \E u \in WwDirectSuccessors(t) :
                       /\ WwDirectSuccessors(t) = {u}
                       /\ meWaiting[u]
                       /\ meWaiting' = [meWaiting EXCEPT ![u] = FALSE]
                       /\ WwEntrants' = {u}]_vars
\* the holder saw no successor, a waiter then exchanged its tail in, the holder's CAS
\* failed and it now waits for this waiter to link itself
C22_Witness ==
  \E t \in Threads : \E u \in WwDirectSuccessors(t) :
    pc[t] = "ww_rel_spin" /\ pc[u] = "ww_link" /\ wwSucc[t][loc[t].block_index] = Zero32

\* ---------------------------------------------------------------- the Busy bit
\* the threads inside a call whose own block has Busy set in its next field
ExtBusyHolders ==
  {t \in Threads : /\ kind = "ext" /\ pc[t] # "idle" /\ loc[t].block_index > 0
                   /\ xBlk[t][loc[t].block_index].busy}
\* the labels of finish_acquire_reader_lock after set_next_flag_busy_granted
ExtFinishAcquireLabels ==
  {"farl_spin_leaving", "farl_tail", "farl_spin_next", "farl_get_next", "farl_flags",
   "farl_lg_cas", "farl_lg_spin", "farl_r_cas", "farl_r_spin", "farl_inc", "farl_grant",
   "farl_set_next", "farl_unbusy"}

\* C23 as stated: at most one thread holds the Busy bit on its own next field
C23_OneBusyHolder == Cardinality(ExtBusyHolders) <= 1

\* C23, amended: a thread holds Busy on its own next field only inside
\* finish_acquire_reader_lock, release_reader_lock or release_writer_lock, on a block
\* that was granted; at most one writer holds it, readers hold it side by side
C23_BusyHolders ==
  /\ \A t \in ExtBusyHolders :
       /\ pc[t] \in ExtFinishAcquireLabels \cup ExtReleaseLabels
       /\ InSeq(grants, MyTail(t))
  /\ Cardinality({t \in ExtBusyHolders : loc[t].role = "W"}) <= 1
\* a reader finalizing its acquire and a reader inside release both hold Busy
C23_Witness ==
  \E t, u \in ExtBusyHolders :
    /\ t # u /\ pc[t] \in ExtFinishAcquireLabels /\ pc[u] \in ExtReleaseLabels
    /\ loc[t].role = "R" /\ loc[u].role = "R"

\* ---------------------------------------------------------------- link consistency
\* a block that is enqueued, whose owner still uses it and has not called cancel
ExtLive(y) == kind = "ext" /\ InSeq(enq, y) /\ ExtOnBlock(y) /\ y \notin cancels
\* the owner of block y is between calls
ExtOwnerAtRest(y) == pc[TailThread(y)] \in {"held", "requested", "tg"}

\* C24 as stated: in every reachable state a live block A whose next_id names B has a
\* live successor B whose pred id is A, or B is cancelling
C24_LinkConsistencyEveryState ==
  \A A, B \in TailWords :
    (ExtLive(A) /\ XB(A).next_id = B) =>
       \/ ExtLive(B) /\ XB(B).pred_id = A
       \/ B \in cancels

\* C24, amended: a live block A whose owner is between calls and whose next_id names B:
\* B is enqueued and in use, and when B's owner is between calls and has not cancelled,
\* B waits with pred id A; A's next_id is SuccIdSuccessorLeaving only while a cancel is
\* in progress
C24_LinkConsistency ==
  /\ \A A, B \in TailWords :
       (ExtLive(A) /\ ExtOwnerAtRest(A) /\ XB(A).next_id = B) =>
          /\ InSeq(enq, B) /\ ExtOnBlock(B)
          /\ (ExtOwnerAtRest(B) /\ B \notin cancels) =>
                XB(B).pred_id = A /\ ~XB(B).granted
  /\ \A A \in TailWords :
       (ExtLive(A) /\ XB(A).next_id = kSuccIdSuccessorLeaving) =>
          \E B \in cancels : ExtOnBlock(B) /\ ~ExtOwnerAtRest(B)
\* a holder and a writer that waits behind it, linked both ways, after a cancel spliced
\* a block out
C24_Witness ==
  \E A, B \in TailWords :
    /\ ExtLive(A) /\ ExtLive(B) /\ ExtOwnerAtRest(A) /\ ExtOwnerAtRest(B)
    /\ XB(A).next_id = B /\ XB(B).pred_id = A /\ ~XB(B).reader
    /\ cancels # {} /\ ExtAtRest

\* ---------------------------------------------------------------- next_writer
\* C25: on the simple and the extended RW lock, a thread named by next_writer is inside
\* or between calls on a writer block that is enqueued, has not been granted and whose
\* cancel has not returned
C25_NextWriterWaits ==
  (kind \in {"simple", "ext"} /\ rwNextWriter # kNextWriterNone) =>
     LET w == rwNextWriter IN
       /\ pc[w] # "idle" /\ loc[w].role = "W"
       /\ InSeq(enq, MyTail(w)) /\ ~InSeq(grants, MyTail(w))
       /\ MyTail(w) \notin ExtCancelReturned
\* next_writer names a writer that enqueued behind a predecessor: another thread
\* registered it
C25_Witness ==
  /\ kind = "ext" /\ rwNextWriter # kNextWriterNone
  /\ loc[rwNextWriter].pred # Zero32 /\ pc[rwNextWriter] = "tg"

\* ---------------------------------------------------------------- nreaders
\* the labels of a releasing reader after its decrement_nreaders
RwAfterDecrementLabels ==
  {"rr_load_nw", "rr_chk_nr", "rr_cas_nw", "rr_other_cur", "rr_wake",
   "frrl_load", "frrl_chk", "frrl_cas", "frrl_cur", "frrl_wcas", "frrl_grant"}
\* the labels between increment_nreaders (or the CAS that adds a reader to the lock
\* word) and the store that grants the reader it counts
RwGrantPendingLabels ==
  {"sr_unblock0", "sr_join_link", "sr_join_unblock", "sf_unblock", "rw_unblock",
   "tr_link", "tr_unblock", "arl_grant", "farl_grant", "crp_g_grant", "rrl_r_cas",
   "rrl_r_grant", "rwl_grant", "xtr_set_next", "xtr_grant", "cnp_r_grant"}
\* the readers that have been granted and have not yet decremented nreaders
RwCountedReaders ==
  {t \in Threads : /\ loc[t].role = "R" /\ InSeq(enq, MyTail(t)) /\ InSeq(grants, MyTail(t))
                   /\ pc[t] \notin RwAfterDecrementLabels \cup {"idle"}}
RwGrantPending == {u \in Threads : pc[u] \in RwGrantPendingLabels}

\* C26: on the simple and the extended RW lock nreaders is positive only while an
\* enqueued reader block is granted and not yet released, or a reader is being granted
C26_NreadersCountsReaders ==
  (kind \in {"simple", "ext"} /\ rwNreaders > 0) =>
     (RwCountedReaders # {} \/ RwGrantPending # {})
\* nreaders is positive, no grant is pending and the only counted reader has begun its
\* release
C26_Witness ==
  /\ kind = "ext" /\ rwNreaders = 1 /\ RwGrantPending = {}
  /\ \E t \in RwCountedReaders : RwCountedReaders = {t} /\ pc[t] = "frrl_dec"

\* ---------------------------------------------------------------- the WW lock word
\* the threads that exchanged their tail in behind a real predecessor and wait
WwQueued == {u \in Threads : pc[u] \in {"ww_link", "ww_wait"} /\ meWaiting[u]}

\* the threads that hold the WW lock: from the grant until release has stored 0 or
\* cleared the waiting flag of the successor
WwWordHolders ==
  WwEntrants \cup {t \in Threads : pc[t] \in {"ww_rel_spin", "ww_rel_wake"}}

\* C27: the WW lock word is 0 exactly when no thread and no guest holds the lock; it is
\* GuestId while a guest holds; while a thread holds it is neither 0 nor GuestId: the
\* holder's TailWord when no thread waits, the TailWord of a waiter otherwise
C27_WwWordEncodesState ==
  kind = "ww" =>
    /\ wwLock = Zero32 <=> (WwWordHolders = {} /\ WwGuestHolders = {})
    /\ WwGuestHolders # {} => wwLock = kMcsGuestId
    /\ \A t \in WwWordHolders :
         /\ wwLock \notin {Zero32, kMcsGuestId}
         /\ WwQueued = {} => wwLock = MyTail(t)
         /\ WwQueued # {} => \E u \in WwQueued : wwLock = MyTail(u)

\* ---------------------------------------------------------------- parked writers
\* C28: on the extended RW lock, while every thread is between calls or spins in an
\* unconditional acquire (no release, no cancel and no other call is in progress), a
\* writer named by next_writer has a counted reader left that will wake it
C28_ParkedWriterHasReader ==
  (ExtAtRest /\ rwNextWriter # kNextWriterNone) => rwNreaders > 0

\* ---------------------------------------------------------------- next_writer hand-off
\* how many times block y was granted
GrantCount(y) == Cardinality({i \in 1..Len(grants) : grants[i] = y})
\* every thread is between calls or spins in an unconditional acquire
RwAtRest ==
  \A t \in Threads : pc[t] \in {"idle", "held", "requested", "tg", "sw_spin", "sr_spin"}

\* C29: a writer that registered in next_writer is taken out once: its block is granted
\* at most once and is no longer named once granted; it holds only while no reader holds
\* and nreaders is 0; and while every thread is at rest a registered writer has a
\* counted reader left (simple and extended)
C29_NextWriterConsumedOnce ==
  kind \in {"simple", "ext"} =>
    /\ \A y \in TailWords : GrantCount(y) <= 1
    /\ \A w \in RwGrantedWriters :
         /\ rwNextWriter # w
         /\ pc[w] = "held" => (RwReaderHolders = {} /\ rwNreaders = 0)
    /\ (RwAtRest /\ rwNextWriter # kNextWriterNone) => rwNreaders > 0

\* ---------------------------------------------------------------- cancel terminates
\* thread t is inside cancel_async_rw_reader or cancel_async_rw_writer
ExtInCancel(t) == kind = "ext" /\ loc[t].api = "cancel" /\ pc[t] # "idle"

\* C30: every cancel on the extended lock returns, whether the holder releases or not,
\* when the threads inside a call keep taking steps
C30_CancelTerminates ==
  \A t \in Threads : ExtInCancel(t) ~> (pc[t] = "idle")

\* ------------------------------------------------------- the block that is granted
\* the block that a reader release is about to grant after it consumed next_writer
RwNextWriterBlock(t) == ToTailInt(loc[t].nw, loc[t].nwb)
RwConsumedNextWriter(t) ==
  \/ kind = "ext" /\ pc[t] \in {"frrl_wcas", "frrl_grant"}
  \/ kind = "simple" /\ pc[t] = "rr_wake"
RwIsWriterBlock(y) ==
  IF kind = "ext" THEN ~XB(y).reader ELSE SBlock(y).class = "writer"

\* C31: when the last reader's release has consumed next_writer, the block it grants is
\* the writer block that the named thread has enqueued on this lock and still waits on,
\* also when that thread has issued further blocks since its asynchronous acquire
C31_GrantsEnqueuedWriterBlock ==
  \A t \in Threads :
    RwConsumedNextWriter(t) =>
      /\ loc[t].nwb \in Blocks
      /\ InSeq(enq, RwNextWriterBlock(t))
      /\ RwIsWriterBlock(RwNextWriterBlock(t))
      /\ loc[loc[t].nw].block_index = loc[t].nwb
      /\ pc[loc[t].nw] # "idle"
      /\ ~InSeq(grants, RwNextWriterBlock(t))

\* ------------------------------------------------------- a busy predecessor
\* the cancelling waiter has read its predecessor's next flags and found Busy (and not
\* Leaving): in cancel_reader_lock_with_writer_pred, in cancel_writer_lock with a writer
\* predecessor, in cancel_writer_lock with a reader predecessor
ExtSawBusyWriterPred(t) == kind = "ext" /\ pc[t] \in {"crw_b_set_pred", "cwl_bw_set_pred"}
ExtSawBusyReaderPred(t) == kind = "ext" /\ pc[t] = "cwl_br_set_pred"
ExtCancelGotLock(t) ==
  kind = "ext" /\ loc[t].api = "cancel" /\ pc[t] \in {"rrl_begin", "rwl_begin"}
ExtCancelFailed(t) == kind = "ext" /\ pc[t] = "idle" /\ ret[t] = "Cancelled"
\* the labels of a cancel that has abandoned the cancel and accepts the grant
ExtAcceptLabels ==
  {"crw_b_set_pred", "cwl_bw_set_pred", "crl_wait", "cwl_wait", "farl_begin",
   "awl_set_granted"} \cup ExtFinishAcquireLabels
ExtAccepting(t) == kind = "ext" /\ loc[t].api = "cancel" /\ pc[t] \in ExtAcceptLabels

\* C32 as stated: a cancelling waiter that observes the Busy bit in its predecessor's next
\* flags never returns LockCancelled afterwards, whatever the class of the predecessor
C32_BusyMeansGrant ==
  \A t \in Threads :
    []((ExtSawBusyWriterPred(t) \/ ExtSawBusyReaderPred(t)) => [](~ExtCancelFailed(t)))

\* C32: a cancelling waiter that observes the Busy bit on a writer predecessor restores
\* its pred id and goes on only to wait for the grant and to finish the acquire, until
\* the cancel has the lock; none of these steps returns LockCancelled.  A cancelling
\* writer that observes Busy on a reader predecessor restores its pred id and takes it
\* back at once
C32_BusyWriterPredMeansGrant ==
  [][\A t \in Threads :
       /\ pc[t] = "crw_b_set_pred" /\ pc'[t] # pc[t] => pc'[t] = "crl_wait"
       /\ pc[t] = "cwl_bw_set_pred" /\ pc'[t] # pc[t] => pc'[t] = "cwl_wait"
       /\ ExtAccepting(t) => ExtAccepting(t)' \/ ExtCancelGotLock(t)'
       /\ ExtSawBusyReaderPred(t) /\ pc'[t] # pc[t] => pc'[t] = "cwl_new_pred"]_vars

\* a cancelling writer saw its writer predecessor Busy, restored its pred id and has
\* been granted the lock by that predecessor
C32_Witness ==
  \E t \in Threads :
    /\ kind = "ext" /\ pc[t] = "cwl_wait" /\ loc[t].api = "cancel"
    /\ loc[t].eflags.busy /\ ~XB(loc[t].pred).reader
    /\ MyX(t).granted

\* ------------------------------------------------------- registering on a predecessor
\* labels at which an acquirer is about to write its successor class into pred's next
\* flags, and at which it has written the class and is about to write pred's next id
ExtBeforeClassLabels == {"awl_set_class", "cwp_set_class", "crp_cas"}
ExtBeforeLinkLabels == {"awl_link", "cwp_link", "crp_link"}
\* the acquirers that are registering on block p or have just registered
ExtRegistering(p) ==
  {u \in Threads : /\ loc[u].pred = p
                    /\ pc[u] \in ExtBeforeClassLabels \cup ExtBeforeLinkLabels
                                 \cup {"crp_lv_link", "crp_set_pred", "crp_lv_set_pred",
                                       "cwp_xchg"}}
\* a cancelled tail waiter is clearing pred's next: set_next_flag_no_successor, then
\* set_next_id(0)
ExtClearingPred(t) == kind = "ext" /\ pc[t] \in {"c_no_succ", "c_clear_id"}

\* C33: an acquirer registers on its predecessor P only when P's next id is 0 and P's
\* successor class is None, P never has two registering successors, and a cancelled tail
\* waiter that clears P's next overwrites nothing but its own SuccessorLeaving mark: no
\* newly arrived successor has written P's next in between
C33_RegistrationSurvives ==
  \A t \in Threads : kind = "ext" =>
    LET p == loc[t].pred IN
    /\ pc[t] \in ExtBeforeClassLabels \cup ExtBeforeLinkLabels \cup {"crp_lv_link"} =>
         XB(p).next_id = Zero32
    /\ pc[t] \in {"awl_set_class", "cwp_set_class"} => XB(p).class = "none"
    /\ pc[t] = "awl_link" => XB(p).class = "writer"
    /\ pc[t] \in {"cwp_link", "crp_link"} => XB(p).class = "reader"
    /\ pc[t] \in ExtBeforeClassLabels \cup ExtBeforeLinkLabels =>
         Cardinality(ExtRegistering(p)) = 1
    /\ ExtClearingPred(t) =>
         /\ XB(p).next_id = kSuccIdSuccessorLeaving
         /\ pc[t] = "c_clear_id" => XB(p).class = "none"
         /\ ExtRegistering(p) = {}

\* ------------------------------------------------------- the splice of a canceller
\* the successful compare-exchange of pred's next that ends cancel_reader_lock_relink and
\* cancel_writer_lock: the canceller t returns LockCancelled on this step
ExtSplices(t) == kind = "ext" /\ pc[t] = "crel_cas" /\ pc'[t] = "idle"
ExtRelinkLabels == {"crel_spin", "crel_read", "crel_pcas", "crel_class", "crel_get", "crel_cas"}
\* block y in the next state
XBnext(y) == xBlk'[TailThread(y)][TailBlock(y)]

\* C34 as stated: a canceller with a successor splices itself out: pred's next becomes the
\* successor's id with the successor class of the canceller's own next flags, pred's
\* state bits and Busy bit stay as they were at the compare-exchange, the successor's
\* pred id has changed from the canceller to pred, and the lock word is not touched
C34_SpliceFrameAlwaysLinks ==
  [][\A t \in Threads :
       LET p == loc[t].pred
           succ == loc[t].next_id
           me == MyTail(t)
       IN
       /\ ExtSplices(t) =>
            /\ MyX(t).class \in {"reader", "writer"}
            /\ XBnext(p).next_id = succ /\ succ = MyX(t).next_id
            /\ XBnext(p).class = MyX(t).class
            /\ XBnext(p).state = XB(p).state /\ XBnext(p).busy = XB(p).busy
            /\ rwTail' = rwTail /\ rwNextWriter' = rwNextWriter /\ rwNreaders' = rwNreaders
       /\ (kind = "ext" /\ pc[t] = "crel_pcas" /\ pc'[t] = "crel_class") =>
            /\ XB(succ).pred_id = me /\ XBnext(succ).pred_id = p
            /\ rwTail' = rwTail /\ rwNextWriter' = rwNextWriter /\ rwNreaders' = rwNreaders]_vars

\* the successor registered while the canceller was already Leaving: a reader that found
\* Leaving in the canceller's next flags stored its id and no successor class
ExtUnclassedSuccessor(t) == MyX(t).class \notin {"reader", "writer"}

\* C34: the same splice, except that a successor which registered on the Leaving
\* canceller without a successor class is not named in pred's next: pred's next id
\* becomes 0 and its successor class None (the successor then registers on pred itself)
C34_SpliceFrame ==
  [][\A t \in Threads :
       LET p == loc[t].pred
           succ == loc[t].next_id
           me == MyTail(t)
       IN
       /\ ExtSplices(t) =>
            /\ succ = MyX(t).next_id
            /\ IF ExtUnclassedSuccessor(t)
               THEN /\ XBnext(p).next_id = Zero32 /\ XBnext(p).class = "none"
                    /\ XB(succ).reader /\ MyX(t).reader
               ELSE /\ XBnext(p).next_id = succ /\ XBnext(p).class = MyX(t).class
                    /\ XB(succ).reader = (MyX(t).class = "reader")
            /\ XB(p).next_id = kSuccIdSuccessorLeaving
            /\ XBnext(p).state = XB(p).state /\ XBnext(p).busy = XB(p).busy
            /\ rwTail' = rwTail /\ rwNextWriter' = rwNextWriter /\ rwNreaders' = rwNreaders
       /\ (kind = "ext" /\ pc[t] = "crel_pcas" /\ pc'[t] = "crel_class") =>
            /\ XB(succ).pred_id = me /\ XBnext(succ).pred_id = p
            /\ rwTail' = rwTail /\ rwNextWriter' = rwNextWriter /\ rwNreaders' = rwNreaders]_vars

\* a canceller has returned LockCancelled after the splice: its successor is named in
\* pred's next and has pred as its pred id
C34_Witness ==
  \E t \in Threads :
    /\ kind = "ext" /\ pc[t] = "idle" /\ ret[t] = "Cancelled" /\ curBlock[t] > 0
    /\ LET mine == xBlk[t][curBlock[t]]
           succ == mine.next_id
       IN /\ succ \notin {Zero32, kSuccIdSuccessorLeaving, kSuccIdNoSuccessor}
          /\ mine.class \in {"reader", "writer"}
          /\ XB(succ).pred_id \notin {Zero32, kPredIdAcquired}
          /\ XB(XB(succ).pred_id).next_id = succ
          /\ XB(XB(succ).pred_id).class = mine.class
          /\ XB(XB(succ).pred_id).busy

\* ------------------------------------------------------- nreaders at rest
\* no acquire, release or cancel is in progress on the RW lock
RwQuiescent ==
  /\ kind \in {"simple", "ext"}
  /\ \A t \in Threads : pc[t] \in {"idle", "held", "requested"}

\* C35: while no call is in progress on an RW lock, nreaders is the number of threads
\* whose reader block has been granted and not released, and no step takes nreaders
\* below 0: every change of nreaders is one increment, or one decrement of a positive
\* count
C35_NreadersIsReaderCount ==
  /\ [](RwQuiescent => rwNreaders = Cardinality(RwCountedReaders))
  /\ [][(kind \in {"simple", "ext"} /\ rwNreaders' # rwNreaders) =>
          ((rwNreaders' = rwNreaders + 1)
             \/ (rwNreaders > 0 /\ rwNreaders' = rwNreaders - 1))]_vars

\* three readers were granted on the extended lock, one has released and two hold
C35_Witness ==
  /\ RwQuiescent /\ kind = "ext"
  /\ Len(grants) = 3 /\ rwNreaders = 2
  /\ Cardinality(RwReaderHolders) = 2

\* ------------------------------------------------------- an empty tail
\* a canceller that has already taken its block out of the queue (the tail was swung back to
\* its predecessor, or its place at the head was handed to its writer successor) and has
\* only its own clean-up left before it returns LockCancelled
ExtUnlinkedLabels == {"c_no_succ", "c_clear_id", "cnp_w_cas"}
RwWaitingInQueue(t) ==
  /\ InSeq(enq, MyTail(t)) /\ ~InSeq(grants, MyTail(t))
  /\ pc[t] \notin ({"idle"} \cup ExtUnlinkedLabels)
RwWriterInLock(t) ==
  loc[t].role = "W" /\ InSeq(grants, MyTail(t)) /\ pc[t] # "idle"

\* C36: in both RW locks, whenever tail == 0 no writer holds the lock, no block is waiting
\* in the queue and next_writer is none; only granted readers may remain
C36_EmptyTailMeansNoWriter ==
  (kind \in {"simple", "ext"} /\ rwTail = Zero32) =>
    /\ rwNextWriter = kNextWriterNone
    /\ \A t \in Threads : ~RwWriterInLock(t) /\ ~RwWaitingInQueue(t)

C36_Witness ==
  /\ kind = "ext" /\ rwTail = Zero32 /\ rwNreaders = 2
  /\ Len(enq) = 3 /\ Len(grants) = 2
  /\ \E t \in Threads : pc[t] = "c_no_succ" /\ loc[t].role = "W"

\* ------------------------------------------------------- stores into next_writer
\* the steps that store a thread id into lock.next_writer: the writer acquire that found the
\* tail empty (extended and simple), the reader release with a writer successor (extended
\* and simple), and cancel_writer_lock_no_pred handing over to its writer successor
RwSetNextWriterLabels ==
  {"awl_set_nw", "rrl_w_set_nw", "cnp_w_set_nw", "sw_setnw", "rr_setnw"}
RwStoresNextWriter(t) ==
  kind \in {"simple", "ext"} /\ pc[t] \in RwSetNextWriterLabels /\ pc'[t] # pc[t]

\* C37: next_writer is never overwritten: every step that stores a thread id into
\* next_writer is taken in a state where next_writer is none
C37_NextWriterNeverOverwritten ==
  [][\A t \in Threads : RwStoresNextWriter(t) => rwNextWriter = kNextWriterNone]_vars

C37_Witness ==
  /\ kind = "ext"
  /\ \E t \in Threads :
       /\ pc[t] = "cnp_w_cas"
       /\ rwNextWriter # kNextWriterNone
       /\ rwNextWriter = TailThread(loc[t].next_id)

\* ------------------------------------------------------- one successor per WW block
WwLinks(t) == kind = "ww" /\ pc[t] = "ww_link" /\ pc'[t] # pc[t]
WwWakes(t) == kind = "ww" /\ pc[t] = "ww_rel_wake" /\ pc'[t] # pc[t]
WwPredSuccessor(t) == wwSucc[TailThread(loc[t].pred)][TailBlock(loc[t].pred)]

\* C38: in WwLock a waiter publishes itself into its predecessor's successor field only
\* when that field is 0, and the successor a release wakes is still waiting
C38_OneSuccessorPerBlock ==
  [][\A t \in Threads :
       /\ WwLinks(t) => WwPredSuccessor(t) = Zero32
       /\ WwWakes(t) => meWaiting[TailThread(wwSucc[t][loc[t].block_index])]]_vars

\* a waiter that put GuestId back, re-exchanged a group tail naming another thread's
\* block, and then linked itself behind the holder it found
C38_Witness ==
  /\ kind = "ww"
  /\ \E t \in Threads :
       /\ pc[t] = "ww_wait" /\ meWaiting[t]
       /\ MyTail(t) \in wwRetried
       /\ loc[t].group_tail # MyTail(t)
       /\ WwPredSuccessor(t) = MyTail(t)

\* ------------------------------------------------------- the tail word as arithmetic
\* (thread_id << 16) | block_index computed on 32-bit operands, half by half: the thread
\* id is 16 bits wide, McsBlockIndex is a 32-bit integer whose high half is or-ed into
\* the thread id's place
PackTailWord(id, block_index) ==
  <<BitOr(id % TwoTo16, (block_index \div TwoTo16) % TwoTo16),
    BitOr(0, block_index % TwoTo16)>>

\* thread ids (0 is reserved for none) and values of get_cur_block() before the acquire,
\* which asserts get_cur_block() < 0xFFFF: the smallest, the largest, and some between
WordThreadIds == {1, 2, 255, 256, TwoTo16 - 2, TwoTo16 - 1}
WordCurBlocks == {0, 255, TwoTo16 - 2}

\* the threads of one lock domain have distinct ids
InitTailWord ==
  /\ kind = "word"
  /\ client \in [Threads -> [max : {1}, calls : {{"to_int"}}, id : WordThreadIds]]
  /\ \A t, u \in Threads : t # u => client[t].id # client[u].id
  /\ curBlock \in [Threads -> WordCurBlocks]
  /\ pc = [t \in Threads |-> "idle"]
  /\ loc = [t \in Threads |-> NoLoc]
  /\ ops = [t \in Threads |-> 0]
  /\ ret = [t \in Threads |-> "none"]
  /\ wwLock = Zero32
  /\ wwSucc = [t \in Threads |-> [b \in Blocks |-> Zero32]]
  /\ meWaiting = [t \in Threads |-> FALSE]
  /\ gpc = [g \in Guests |-> "idle"]
  /\ gops = [g \in Guests |-> 0]
  /\ rwTail = Zero32
  /\ rwNextWriter = kNextWriterNone
  /\ rwNreaders = 0
  /\ sBlk = [t \in Threads |-> [b \in Blocks |-> SimpleZero]]
  /\ xBlk = [t \in Threads |-> [b \in Blocks |-> ExtZero]]
  /\ enq = <<>>
  /\ wwRetried = {}
  /\ grants = <<>>
  /\ cancels = {}
  /\ midCancels = {}

\* block_index = issue_new_block(); desired = McsLock::to_int(id, block_index)
TailWordPack(t) ==
  /\ kind = "word" /\ pc[t] = "idle" /\ ops[t] < client[t].max
  /\ curBlock[t] < TwoTo16 - 1
  /\ curBlock' = [curBlock EXCEPT ![t] = @ + 1]
  /\ ops' = [ops EXCEPT ![t] = @ + 1]
  /\ loc' = [loc EXCEPT ![t] =
               [NoLoc EXCEPT !.block_index = curBlock[t] + 1,
                             !.group_tail = PackTailWord(client[t].id, curBlock[t] + 1)]]
  /\ Goto(t, "word_packed")
  /\ UNCHANGED <<kind, client, ret, rwWord, sBlk, xBlk, hist, cancels, midCancels>>
  /\ UNCHANGED wwVars

\* predecessor_id = old.get_tail_waiter(); predecessor_block = old.get_tail_waiter_block();
\* next_id >> 16 in the RW locks
TailWordUnpack(t) ==
  /\ kind = "word" /\ pc[t] = "word_packed"
  /\ loc' = [loc EXCEPT ![t].nw = TailThread(loc[t].group_tail),
                        ![t].nwb = TailBlock(loc[t].group_tail)]
  /\ Goto(t, "word_unpacked")
  /\ UNCHANGED <<kind, client, curBlock, ops, ret, rwWord, sBlk, xBlk, hist, cancels,
                 midCancels>>
  /\ UNCHANGED wwVars

NextTailWord == \E t \in Threads : TailWordPack(t) \/ TailWordUnpack(t)
SpecTailWord == InitTailWord /\ [][NextTailWord]_vars

\* C39: for every thread id and every block index an acquire may use (1..0xFFFF) the
\* tail word (t << 16) | b is neither 0 nor GuestId, and word >> 16 and word & 0xFFFF
\* give back t and b
C39_TailWordRoundTrip ==
  \A t \in Threads :
    (kind = "word" /\ pc[t] \in {"word_packed", "word_unpacked"}) =>
      /\ loc[t].block_index \in 1..(TwoTo16 - 1)
      /\ loc[t].group_tail # Zero32
      /\ loc[t].group_tail # kMcsGuestId
      /\ pc[t] = "word_unpacked" =>
           (loc[t].nw = client[t].id /\ loc[t].nwb = loc[t].block_index)

\* ------------------------------------------------------- claims on all locks
\* reader or writer, as the block was initialised
ClassOf(x) ==
  IF kind = "ww" THEN "writer"
  ELSE IF kind = "simple" THEN SBlock(x).class
  ELSE IF XB(x).reader THEN "reader" ELSE "writer"
\* a enqueued before b: the tail exchange that enqueued a came before the only tail
\* exchange of b
EnqueuedBefore(a, b) ==
  /\ InSeq(enq, a) /\ InSeq(enq, b)
  /\ FirstPos(enq, a) < FirstPos(enq, b)
  /\ b \notin wwRetried
GrantedBefore(a, b) == InSeq(grants, a) /\ FirstPos(grants, a) < FirstPos(grants, b)

\* C7: on each of the three locks, when a enqueued before b by the tail exchange, both
\* are of one class, neither was cancelled and b is granted, a was granted before b
C7_Fifo ==
  \A a, b \in TailWords :
    (EnqueuedBefore(a, b) /\ ClassOf(a) = ClassOf(b) /\ a \notin cancels /\ b \notin cancels
       /\ InSeq(grants, b))
      => GrantedBefore(a, b)

\* ---- the three locks together: the lock type is chosen at the start
InitAll == InitWw \/ InitSimple \/ InitExtMix
NextAll == NextWw \/ NextSimple \/ NextExt
Spec == InitAll /\ [][NextAll]_vars

\* C9: once every operation has returned and every acquire was matched by a release or
\* a cancel, the lock word is empty again: WW word 0, RW tail 0, next_writer none,
\* nreaders 0
C9_RoundTripToEmpty ==
  AllReturned =>
    /\ wwLock = Zero32
    /\ rwTail = Zero32 /\ rwNextWriter = kNextWriterNone /\ rwNreaders = 0

\* every thread of an extended lock made all its acquires, one of them was cancelled,
\* one was granted, and all calls have returned
C9_Witness ==
  /\ kind = "ext" /\ AllReturned
  /\ \A t \in Threads : ops[t] = client[t].max
  /\ cancels # {} /\ Len(grants) >= 1

====
